---------------------------- MODULE Spec2Model ----------------------------
(***************************************************************************)
(* A model of the news acquisition pipeline: the Deduplicator, the Content *)
(* Extractor and the Scraping Orchestrator of news_scraper.py (variant 1,  *)
(* the one app.py imports) and news_scraper2.py (variant 2).               *)
(*                                                                         *)
(* Python strings are sequences of one-character strings, so that          *)
(* lower(), strip(), split(), re.findall(r'\w+') and the `in` substring    *)
(* test are computed and not assumed.                                      *)
(***************************************************************************)
EXTENDS Integers, Sequences, FiniteSets, TLC

VARIABLES
    \* ---- the Deduplicator applied to a list (a pure function) ----
    dd_impl,      \* 1: NewsScraper._remove_duplicates, 2: ArticleDeduplicator
    dd_in,        \* the list handed to the Deduplicator
    dd_out,       \* its result
    dd_out2,      \* the result of the Deduplicator applied to dd_out
    dd_pc,        \* "idle" (not used) | "input" | "once" | "twice"
    \* ---- one call of the Content Extractor ----
    ex_impl,      \* 1: NewsScraper._extract_article_content,
                  \* 2: RSSSource._extract_content_from_url
    ex_url,       \* the URL handed to it
    ex_page,      \* what the network and trafilatura answer for that URL
    ex_result,    \* what the call returned: <<>> (None) or <<value>>
    ex_fetches,   \* the number of trafilatura.fetch_url calls made
    ex_pc,        \* "idle" (not used) | "call" | "returned"
    \* ---- one invocation of scrape_news ----
    sn_impl,         \* 1: news_scraper.py, 2: news_scraper2.py
    sn_search_terms, \* the arguments of scrape_news ...
    sn_sources,
    sn_start_date,
    sn_end_date,
    sn_max_articles,
    sn_feeds,        \* what each feed answers to requests.get in this invocation
    sn_pc,           \* "idle" (not used) | "search" | "loop" | "sleep" | "check" |
                     \* "finish" | "done" | "raised" (an exception left scrape_news)
    sn_i,            \* the position in sources the loop is at
    sn_articles,     \* the articles collected so far
    sn_result,       \* the list scrape_news returned
    sn_log,          \* the feed queries and pauses made so far, in order
    \* ---- one call of the Relevance Filter ----
    rf_content,   \* the content handed to _is_relevant_article
    rf_terms,     \* the search terms handed to it
    rf_result,    \* what it returned
    rf_pc,        \* "idle" (not used) | "call" | "returned"
    \* ---- one call of a feed source ----
    so_impl,        \* 1: news_scraper.py, 2: news_scraper2.py
    so_kind,        \* "search" | "rss" (general feed) | "tech" (technology feed)
    so_terms,       \* the search terms handed to the source
    so_budget,      \* the max_articles handed to it (where it takes one)
    so_entries,     \* the entries of the feed it fetches
    so_result,      \* the articles it returned
    so_pc,          \* "idle" (not used) | "call" | "returned"
    \* ---- one call of analyze_article ----
    an_article,     \* the article handed to analyze_article
    an_oracle,      \* what the scoring oracle answers to each of the four requests
    an_result,      \* the record analyze_article returned
    an_pc,          \* "idle" (not used) | "call" | "returned"
    \* ---- one call of calculate_market_impact_score ----
    mi_articles,    \* the batch of analyzed articles
    mi_result,      \* the record returned
    mi_pc,          \* "idle", "call" or "returned"
    \* ---- one call of filter_articles ----
    fa_heap,        \* the lists of the program: fa_heap[r] holds the items of list r
    fa_articles,    \* the list passed as articles
    fa_given,       \* the items of that list when the call was made
    fa_sentiment,   \* the argument sentiment, None when not passed
    fa_source,      \* the argument source, None when not passed
    fa_min_confidence,\* the argument min_confidence, None when not passed
    fa_result,      \* the list returned, 0 before the return
    fa_pc,          \* "idle", "call" or "returned"
    \* ---- get_top_insights ----
    ti_articles,    \* the analyzed articles passed
    ti_top_n,       \* the argument top_n
    ti_result,      \* the list returned
    ti_pc,          \* "idle", "call" or "returned"
    \* ---- get_sentiment_summary ----
    ss_articles,    \* the analyzed articles passed
    ss_today,       \* the day of the call: a day d stands for its string YYYY-MM-DD
    ss_result,      \* the dict returned
    ss_pc           \* "idle", "call" or "returned"

dd_vars == <<dd_impl, dd_in, dd_out, dd_out2, dd_pc>>
ex_vars == <<ex_impl, ex_url, ex_page, ex_result, ex_fetches, ex_pc>>
sc_vars == <<sn_impl, sn_search_terms, sn_sources, sn_start_date, sn_end_date, sn_max_articles, sn_feeds,
             sn_pc, sn_i, sn_articles, sn_result, sn_log>>
rf_vars == <<rf_content, rf_terms, rf_result, rf_pc>>
so_vars == <<so_impl, so_kind, so_terms, so_budget, so_entries, so_result, so_pc>>
an_vars == <<an_article, an_oracle, an_result, an_pc>>
mi_vars == <<mi_articles, mi_result, mi_pc>>
fa_vars == <<fa_heap, fa_articles, fa_given, fa_sentiment, fa_source, fa_min_confidence, fa_result, fa_pc>>
ti_vars == <<ti_articles, ti_top_n, ti_result, ti_pc>>
ss_vars == <<ss_articles, ss_today, ss_result, ss_pc>>
vars == <<dd_vars, ex_vars, sc_vars, rf_vars, so_vars, an_vars, mi_vars, fa_vars, ti_vars, ss_vars>>

\* the variables of the other components, which a step of one leaves alone
dd_others == <<ex_vars, sc_vars, rf_vars, so_vars, an_vars, mi_vars, fa_vars, ti_vars, ss_vars>>
ex_others == <<dd_vars, sc_vars, rf_vars, so_vars, an_vars, mi_vars, fa_vars, ti_vars, ss_vars>>
sc_others == <<dd_vars, ex_vars, rf_vars, so_vars, an_vars, mi_vars, fa_vars, ti_vars, ss_vars>>
rf_others == <<dd_vars, ex_vars, sc_vars, so_vars, an_vars, mi_vars, fa_vars, ti_vars, ss_vars>>
so_others == <<dd_vars, ex_vars, sc_vars, rf_vars, an_vars, mi_vars, fa_vars, ti_vars, ss_vars>>
an_others == <<dd_vars, ex_vars, sc_vars, rf_vars, so_vars, mi_vars, fa_vars, ti_vars, ss_vars>>
mi_others == <<dd_vars, ex_vars, sc_vars, rf_vars, so_vars, an_vars, fa_vars, ti_vars, ss_vars>>
fa_others == <<dd_vars, ex_vars, sc_vars, rf_vars, so_vars, an_vars, mi_vars, ti_vars, ss_vars>>
ti_others == <<dd_vars, ex_vars, sc_vars, rf_vars, so_vars, an_vars, mi_vars, fa_vars, ss_vars>>
ss_others == <<dd_vars, ex_vars, sc_vars, rf_vars, so_vars, an_vars, mi_vars, fa_vars, ti_vars>>

---------------------------------------------------------------------------
(* Strings                                                                 *)

UpperChars == <<"A","B","C","D","E","F","G","H","I","J","K","L","M",
                "N","O","P","Q","R","S","T","U","V","W","X","Y","Z">>
LowerChars == <<"a","b","c","d","e","f","g","h","i","j","k","l","m",
                "n","o","p","q","r","s","t","u","v","w","x","y","z">>
DigitChars == {"0","1","2","3","4","5","6","7","8","9"}
Range(s) == {s[k] : k \in DOMAIN s}

\* str.lower() on one character
UpperToLower ==
    [c \in Range(UpperChars) |->
        LowerChars[CHOOSE k \in DOMAIN UpperChars : UpperChars[k] = c]]
LowerChar(c) == IF c \in DOMAIN UpperToLower THEN UpperToLower[c] ELSE c

\* str.lower()
Lower(s) == [k \in DOMAIN s |-> LowerChar(s[k])]

\* the characters the regular expression \w matches
WordChars == Range(UpperChars) \cup Range(LowerChars) \cup DigitChars \cup {"_"}
IsWordChar(c) == c \in WordChars

\* the characters str.strip() and str.split() treat as white space
IsSpace(c) == c \in {" ", "\n", "\t", "\r"}

\* s[a:b] of Python for 0 <= a, with 1-based TLA+ positions a+1 .. b
Slice(s, a, b) == SubSeq(s, a + 1, IF b > Len(s) THEN Len(s) ELSE b)

\* s[:n] for a list, n >= 0
Take(s, n) == SubSeq(s, 1, IF n > Len(s) THEN Len(s) ELSE n)

\* the members of a finite set of numbers, in increasing order
Ascending(S) ==
    [k \in 1..Cardinality(S) |-> CHOOSE x \in S : Cardinality({y \in S : y < x}) = k - 1]

\* re.findall(r'\w+', s) as a set: the maximal runs of word characters, each
\* from a position where a run starts to the position where that run ends
Words(s) ==
    LET starts == {i \in DOMAIN s : IsWordChar(s[i]) /\ (i = 1 \/ ~IsWordChar(s[i - 1]))}
        EndOf(i) == CHOOSE j \in i..Len(s) :
                        /\ \A m \in i..j : IsWordChar(s[m])
                        /\ (j = Len(s) \/ ~IsWordChar(s[j + 1]))
    IN  {SubSeq(s, i, EndOf(i)) : i \in starts}

\* str.strip(): leading and trailing white space removed
Strip(s) ==
    IF \A k \in DOMAIN s : IsSpace(s[k]) THEN <<>>
    ELSE LET first == CHOOSE k \in DOMAIN s :
                          ~IsSpace(s[k]) /\ \A j \in 1..(k - 1) : IsSpace(s[j])
             last == CHOOSE k \in DOMAIN s :
                          ~IsSpace(s[k]) /\ \A j \in (k + 1)..Len(s) : IsSpace(s[j])
         IN  SubSeq(s, first, last)

\* s.startswith(prefix)
StartsWith(s, prefix) == Len(s) >= Len(prefix) /\ SubSeq(s, 1, Len(prefix)) = prefix

\* needle in hay, for strings
Contains(hay, needle) ==
    \E k \in 1..(Len(hay) - Len(needle) + 1) :
        SubSeq(hay, k, k + Len(needle) - 1) = needle

\* s.split(sep) for a one-character separator: the list of the pieces, the
\* n-th of them between the (n-1)-th and the n-th separator
Split(s, sep) ==
    LET at == {k \in DOMAIN s : s[k] = sep}
        nth(n) == IF n = 0 THEN 0
                  ELSE IF n > Cardinality(at) THEN Len(s) + 1
                  ELSE CHOOSE k \in at : Cardinality({j \in at : j < k}) = n - 1
    IN  [n \in 1..(Cardinality(at) + 1) |-> SubSeq(s, nth(n - 1) + 1, nth(n) - 1)]

\* Optional values: None is <<>>, a value v is <<v>>
None == <<>>
Some(v) == <<v>>

---------------------------------------------------------------------------
(* Articles                                                                *)

NowStamp == <<"n","o","w">>       \* datetime.now().isoformat()
Unknown == <<"U","n","k","n","o","w","n">>

Article(title, content, source, url, published_date, author) ==
    [title |-> title, content |-> content, source |-> source, url |-> url,
     published_date |-> published_date, author |-> author]

---------------------------------------------------------------------------
(* The Deduplicator                                                        *)

\* the 70% threshold, as the fraction SimilarityNum / SimilarityDen
SimilarityNum == 7
SimilarityDen == 10

\* A slip in the similarity: the sizes of the two sets added up where the size
\* of their union belongs.
SimilarAboveSum(a, b, num, den) ==
    Cardinality(a) + Cardinality(b) # 0
        /\ den * Cardinality(a \cap b) > num * (Cardinality(a) + Cardinality(b))

\* A slip in the comparison: a similarity of exactly the threshold counted
\* as a duplicate.
SimilarAtLeast(a, b, num, den) ==
    Cardinality(a \cup b) # 0
        /\ den * Cardinality(a \cap b) >= num * Cardinality(a \cup b)

\* len(a & b) / len(a | b) > 0.7.  The quotient of two small integers is
\* compared exactly: i/u and 0.7 round to different doubles unless 10i = 7u,
\* and then to the same one.
SimilarAbove(a, b, num, den) ==
    Cardinality(a \cup b) # 0
        /\ den * Cardinality(a \cap b) > num * Cardinality(a \cup b)

\* news_scraper.py: is_duplicate of the loop body, against the set seen_titles
IsDuplicate(title, seen_titles) ==
    \E seen_title \in seen_titles :
        SimilarAbove(Words(title), Words(seen_title), SimilarityNum, SimilarityDen)

RECURSIVE DedupeLoop(_, _, _, _)
DedupeLoop(articles, k, unique_articles, seen_titles) ==
    IF k > Len(articles) THEN unique_articles
    ELSE LET title == Lower(articles[k].title) IN
         IF IsDuplicate(title, seen_titles)
         THEN DedupeLoop(articles, k + 1, unique_articles, seen_titles)
         ELSE DedupeLoop(articles, k + 1, Append(unique_articles, articles[k]),
                         seen_titles \cup {title})

\* A slip in the loop: each title compared with the title just before it in
\* the input, and not with the titles kept so far.
RemoveDuplicatesAdjacent(articles) ==
    LET keep(k) == k = 1 \/ ~IsDuplicate(Lower(articles[k].title),
                                         {Lower(articles[k - 1].title)})
        RECURSIVE Pick(_)
        Pick(k) == IF k > Len(articles) THEN <<>>
                   ELSE (IF keep(k) THEN <<articles[k]>> ELSE <<>>) \o Pick(k + 1)
    IN  Pick(1)

\* NewsScraper._remove_duplicates
_remove_duplicates(articles) == DedupeLoop(articles, 1, <<>>, {})

\* news_scraper2.py: the loop of ArticleDeduplicator.remove_duplicates
RECURSIVE DedupeLoop2(_, _, _, _, _, _)
DedupeLoop2(articles, num, den, k, unique_articles, seen_titles) ==
    IF k > Len(articles) THEN unique_articles
    ELSE LET title_words == Words(Lower(articles[k].title))
             is_duplicate ==
                 \E seen_title \in seen_titles :
                     SimilarAbove(title_words, Words(seen_title), num, den)
         IN  IF is_duplicate
             THEN DedupeLoop2(articles, num, den, k + 1, unique_articles, seen_titles)
             ELSE DedupeLoop2(articles, num, den, k + 1,
                              Append(unique_articles, articles[k]),
                              seen_titles \cup {Lower(articles[k].title)})

\* ArticleDeduplicator.remove_duplicates, similarity_threshold = num / den
remove_duplicates(articles, num, den) == DedupeLoop2(articles, num, den, 1, <<>>, {})

\* the Deduplicator of variant v, with the default threshold
Dedupe(v, articles) ==
    IF v = 1 THEN _remove_duplicates(articles)
    ELSE remove_duplicates(articles, SimilarityNum, SimilarityDen)

---------------------------------------------------------------------------
(* Inputs of the Deduplicator                                              *)

MaxDedupeLen == 3

T_abcd == <<"a"," ","b"," ","c"," ","d">>
T_ABc == <<"A"," ","B",","," ","c">>
T_abd == <<"a","-","b"," ","d","!">>
T_dots == <<".",".",".">>
T_none == <<>>
T_xy == <<"x","y">>
T_x_y == <<"x","_","y"," ","X","Y">>
T_ten == <<"a"," ","b"," ","c"," ","d"," ","e"," ","f"," ","g"," ","h"," ","i"," ","j">>
T_seven == <<"a"," ","b"," ","c"," ","d"," ","e"," ","f"," ","g">>

DedupeTitles == {T_abcd, T_ABc, T_abd, T_dots, T_none, T_xy, T_x_y, T_ten, T_seven}

Src_BBC == "BBC News"
Url_1 == <<"h","t","t","p",":","/","/","u","/","1">>

DedupeArticles ==
    {Article(t, <<"x">>, Src_BBC, Url_1, NowStamp, Unknown) : t \in DedupeTitles}

RECURSIVE SeqsUpTo(_, _)
SeqsUpTo(S, n) ==
    IF n = 0 THEN {<<>>}
    ELSE LET shorter == SeqsUpTo(S, n - 1) IN
         shorter \cup {Append(s, x) : s \in {t \in shorter : Len(t) = n - 1}, x \in S}

DedupeInit ==
    /\ dd_impl \in {1, 2}
    /\ dd_in \in SeqsUpTo(DedupeArticles, MaxDedupeLen)
    /\ dd_out = <<>>
    /\ dd_out2 = <<>>
    /\ dd_pc = "input"

RunDedupe ==
    /\ dd_pc = "input"
    /\ dd_out' = Dedupe(dd_impl, dd_in)
    /\ dd_pc' = "once"
    /\ UNCHANGED <<dd_impl, dd_in, dd_out2, dd_others>>

RunDedupeAgain ==
    /\ dd_pc = "once"
    /\ dd_out2' = Dedupe(dd_impl, dd_out)
    /\ dd_pc' = "twice"
    /\ UNCHANGED <<dd_impl, dd_in, dd_out, dd_others>>

---------------------------------------------------------------------------
(* The Content Extractor                                                   *)

\* the quality gate: the least accepted length of the stripped text
MinContentLength == 100
\* _extract_title_from_text: the lines looked at, and the length window
TitleLines == 5
TitleMinLen == 10
TitleMaxLen == 150

UntitledArticle == <<"U","n","t","i","t","l","e","d"," ","A","r","t","i","c","l","e">>
HttpPrefix == <<"h","t","t","p",":","/","/">>
HttpsPrefix == <<"h","t","t","p","s",":","/","/">>

\* A title search that looks at every line of the text.
RECURSIVE FirstTitleLineAnywhere(_, _)
FirstTitleLineAnywhere(lines, k) ==
    IF k > Len(lines) THEN UntitledArticle
    ELSE IF Len(Strip(lines[k])) > TitleMinLen /\ Len(Strip(lines[k])) < TitleMaxLen
         THEN Strip(lines[k])
         ELSE FirstTitleLineAnywhere(lines, k + 1)

\* NewsScraper._extract_title_from_text
RECURSIVE FirstTitleLine(_, _)
FirstTitleLine(lines, k) ==
    IF k > Len(lines) \/ k > TitleLines THEN UntitledArticle
    ELSE IF Len(Strip(lines[k])) > TitleMinLen /\ Len(Strip(lines[k])) < TitleMaxLen
         THEN Strip(lines[k])
         ELSE FirstTitleLine(lines, k + 1)

_extract_title_from_text(text) == FirstTitleLine(Split(text, "\n"), 1)

\* A slip in the gate: <= where < belongs.
InsufficientContentOffByOne(text) ==
    text = None \/ text[1] = <<>> \/ Len(Strip(text[1])) <= MinContentLength

\* `not text or len(text.strip()) < 100`, text an Optional string
InsufficientContent(text) ==
    text = None \/ text[1] = <<>> \/ Len(Strip(text[1])) < MinContentLength

\* A page is what the outside world answers for one URL:
\*   fetch: "ok" (fetch_url returned the document), "none" (it returned
\*          None), "error" (it raised)
\*   text:  trafilatura.extract's result, an Optional string
\*   meta:  trafilatura.extract_metadata's result, None or a record of
\*          Optional strings title, date, author
\* NewsScraper._extract_article_content: None or the article
_extract_article_content(url, source, page) ==
    IF url = <<>> \/ ~(StartsWith(url, HttpPrefix) \/ StartsWith(url, HttpsPrefix))
    THEN None
    ELSE IF page.fetch # "ok" THEN None
    ELSE IF InsufficientContent(page.text) THEN None
    ELSE LET text == page.text[1]
             metadata == page.meta
             has(f) == metadata # None /\ metadata[1][f] # None /\ metadata[1][f][1] # <<>>
         IN  Some(Article(
                 IF has("title") THEN metadata[1].title[1]
                                 ELSE _extract_title_from_text(text),
                 text, source, url,
                 IF has("date") THEN metadata[1].date[1] ELSE NowStamp,
                 IF has("author") THEN metadata[1].author[1] ELSE Unknown))

\* An extractor that fetches whatever it is given.
ExtractFetchesUnguarded(url) == 1

\* the fetches _extract_article_content makes: none for a rejected URL
ExtractFetches(url) ==
    IF url = <<>> \/ ~(StartsWith(url, HttpPrefix) \/ StartsWith(url, HttpsPrefix))
    THEN 0 ELSE 1

\* RSSSource._extract_content_from_url and
\* GoogleNewsSource._extract_content_from_url: None or the text
_extract_content_from_url(url, page) ==
    IF page.fetch # "ok" THEN None
    ELSE IF InsufficientContent(page.text) THEN None
    ELSE page.text

---------------------------------------------------------------------------
(* Inputs of the Content Extractor                                         *)

\* the white space put before and after a text: 0 .. MaxPad characters
MaxPad == 1

\* a text of n characters "x" with `lead` blanks before and `trail` line
\* ends after it
PaddedText(lead, n, trail) ==
    [k \in 1..(lead + n + trail) |->
        IF k <= lead THEN " " ELSE IF k <= lead + n THEN "x" ELSE "\n"]

Url_ftp == <<"f","t","p",":","/","/","u">>
Url_s == <<"h","t","t","p","s",":","/","/","u","/","2">>
T_meta == <<"M","e","t","a"," ","t","i","t","l","e">>

\* a line of n characters c
Run(c, n) == SubSeq([k \in 1..n |-> c], 1, n)
NewLine == <<"\n">>

\* bodies that pass the quality gate and try the title search:
\*   a line of 10 characters, one of 11, then the rest
Body_low == Run("a", TitleMinLen) \o NewLine \o Run("b", TitleMinLen + 1)
                \o NewLine \o Run("c", MinContentLength)
\*   a line of 150 characters, then one of 149
Body_high == Run("a", TitleMaxLen) \o NewLine \o Run("b", TitleMaxLen - 1)
\*   five lines of one character, then a sixth of 100
Body_sixth == <<"1">> \o NewLine \o <<"2">> \o NewLine \o <<"3">> \o NewLine \o <<"4">> \o NewLine
                 \o <<"5">> \o NewLine \o Run("f", MinContentLength)
\*   one line of 150 characters
Body_long == Run("a", TitleMaxLen)
\*   an indented line of 11 characters followed by a blank, then one of 150
Body_indent == <<" "," ">> \o Run("b", TitleMinLen + 1) \o <<" ">> \o NewLine
                  \o Run("d", TitleMaxLen)
TitleBodies == {Body_low, Body_high, Body_sixth, Body_long, Body_indent}

ExtractUrls == {Url_1, Url_s, Url_ftp, <<>>}
ExtractTexts ==
    {None, Some(<<>>)} \cup {Some(b) : b \in TitleBodies} \cup
    {Some(PaddedText(lead, n, trail)) :
        lead \in 0..MaxPad, trail \in 0..MaxPad,
        n \in {MinContentLength - 2, MinContentLength - 1,
               MinContentLength, MinContentLength + 1}}
ExtractMetas ==
    {None,
     Some([title |-> Some(T_meta), date |-> None, author |-> None]),
     Some([title |-> Some(<<>>), date |-> Some(<<"2","0","2","4">>),
           author |-> Some(<<"A","n","n">>)])}
ExtractPages ==
    [fetch : {"ok", "none", "error"}, text : ExtractTexts, meta : ExtractMetas]

ExtractInit ==
    /\ ex_impl \in {1, 2}
    /\ ex_url \in ExtractUrls
    /\ ex_page \in ExtractPages
    /\ ex_result = None
    /\ ex_fetches = 0
    /\ ex_pc = "call"

\* one call of the extractor of variant ex_impl
CallExtract ==
    /\ ex_pc = "call"
    /\ ex_result' = IF ex_impl = 1
                    THEN _extract_article_content(ex_url, Src_BBC, ex_page)
                    ELSE _extract_content_from_url(ex_url, ex_page)
    /\ ex_fetches' = IF ex_impl = 1 THEN ExtractFetches(ex_url) ELSE 1
    /\ ex_pc' = "returned"
    /\ UNCHANGED <<ex_impl, ex_url, ex_page, ex_others>>

---------------------------------------------------------------------------
(* More of Python's strings                                                *)

\* s.find(sub, start): the least 0-based position >= start at which sub
\* occurs in s, or -1
Find(s, sub, start) ==
    LET at == {k \in start..(Len(s) - Len(sub)) :
                  SubSeq(s, k + 1, k + Len(sub)) = sub}
    IN  IF at = {} THEN -1 ELSE CHOOSE k \in at : \A j \in at : k <= j

\* s.split(): the list of the maximal runs of characters that are not white
\* space, in the order they start
SplitSpace(s) ==
    LET starts == {i \in DOMAIN s : ~IsSpace(s[i]) /\ (i = 1 \/ IsSpace(s[i - 1]))}
        EndOf(i) == CHOOSE j \in i..Len(s) :
                        /\ \A m \in i..j : ~IsSpace(s[m])
                        /\ (j = Len(s) \/ IsSpace(s[j + 1]))
        order == Ascending(starts)
    IN  [k \in DOMAIN order |-> SubSeq(s, order[k], EndOf(order[k]))]

\* ' '.join(parts)
RECURSIVE JoinSpace(_)
JoinSpace(parts) ==
    IF parts = <<>> THEN <<>>
    ELSE IF Len(parts) = 1 THEN parts[1]
    ELSE parts[1] \o <<" ">> \o JoinSpace(Tail(parts))

\* urllib.parse.unquote, for the escapes the links of this model use: every
\* %3A becomes ":" and every %2F becomes "/", the other characters stay
Unquote(s) ==
    LET EscapeAt(i) ==
            /\ i >= 1 /\ i + 2 <= Len(s)
            /\ SubSeq(s, i, i + 2) \in {<<"%","3","A">>, <<"%","2","F">>}
        starts == {i \in DOMAIN s : ~EscapeAt(i - 1) /\ ~EscapeAt(i - 2)}
        order == Ascending(starts)
    IN  [k \in DOMAIN order |->
            IF EscapeAt(order[k])
            THEN (IF s[order[k] + 1] = "3" THEN ":" ELSE "/")
            ELSE s[order[k]]]

\* the concatenation of a list of lists
RECURSIVE Flatten(_)
Flatten(lists) == IF lists = <<>> THEN <<>> ELSE Head(lists) \o Flatten(Tail(lists))

---------------------------------------------------------------------------
(* The outside world: pages, redirects and feeds                           *)

\* a text of MinContentLength characters that starts with `start`
Content(start) ==
    [k \in 1..MinContentLength |-> IF k <= Len(start) THEN start[k] ELSE "x"]

U_a1 == <<"h","t","t","p","s",":","/","/","a","/","1">>
U_a2 == <<"h","t","t","p","s",":","/","/","a","/","2">>
U_a3 == <<"h","t","t","p","s",":","/","/","a","/","3">>
U_a4 == <<"h","t","t","p","s",":","/","/","a","/","4">>
U_a5 == <<"h","t","t","p","s",":","/","/","a","/","5">>
U_g1 == <<"h","t","t","p","s",":","/","/","n","e","w","s",".","g","o","o","g","l","e",".","c","o","m","/","r","/","1">>
U_g2 == <<"h","t","t","p","s",":","/","/","n","e","w","s",".","g","o","o","g","l","e",".","c","o","m","/","x","?","u","r","l","=","h","t","t","p","s","%","3","A","%","2","F","%","2","F","a","%","2","F","3","&","s","=","1">>
U_g3 == <<"h","t","t","p","s",":","/","/","n","e","w","s",".","g","o","o","g","l","e",".","c","o","m","/","a","/","3">>

T_chip4 == <<"A","I"," ","c","h","i","p"," ","n","e","w","s"," ","t","o","d","a","y">>
T_chip3 == <<"A","I"," ","c","h","i","p"," ","n","e","w","s">>
T_sport == <<"A","I"," ","i","n"," ","s","p","o","r","t">>
T_down == <<"A","I"," ","d","o","w","n">>
T_bot == <<"A","I"," ","w","e","a","t","h","e","r"," ","b","o","t">>
T_plain == <<"S","p","o","r","t">>

D_jan == <<"2","0","2","4","-","0","1","-","0","5">>
D_feb == <<"2","0","2","4","-","0","2","-","0","1">>

Meta(title) == Some([title |-> Some(title), date |-> None, author |-> None])

\* what trafilatura answers for a URL; its download follows redirects, so a
\* wrapper URL answers with the page it leads to
PageAt(url) ==
    CASE url \in {U_a1, U_g1} -> [fetch |-> "ok", text |-> Some(Content(<<"a","i"," ","o","n","e"," ">>)),
                        meta |-> Meta(T_chip4)]
      [] url = U_a2 -> [fetch |-> "ok", text |-> Some(Content(<<"A","i"," ","t","w","o"," ">>)),
                        meta |-> Meta(T_chip3)]
      [] url \in {U_a3, U_g3} -> [fetch |-> "ok", text |-> Some(Content(<<"s","p","o","r","t"," ","a","n","d"," ","A","I"," ">>)),
                        meta |-> None]
      [] url = U_a5 -> [fetch |-> "ok", text |-> Some(Content(<<"w","e","a","t","h","e","r"," ">>)),
                        meta |-> Meta(T_bot)]
      [] OTHER -> [fetch |-> "none", text |-> None, meta |-> None]

\* what requests.head(url, allow_redirects=True) answers: it raises, or
\* response.url is the URL the redirects end at
HeadAt(url) ==
    CASE url = U_g1 -> [error |-> FALSE, url |-> U_a1]
      [] url = U_g2 -> [error |-> TRUE, url |-> <<>>]
      [] OTHER -> [error |-> FALSE, url |-> url]

\* a feed entry: title, published and author are Optional (hasattr), summary
\* and description are "" when the entry has none
Entry(title, link, summary, published) ==
    [title |-> title, link |-> link, summary |-> summary,
     description |-> <<>>, published |-> published, author |-> None]

E_g1 == Entry(Some(T_chip4), U_g1, <<>>, Some(D_jan))
E_g2 == Entry(Some(T_sport), U_g2, <<>>, None)
E_g3 == Entry(Some(T_sport), U_g3, <<>>, Some(D_feb))
E_a1 == Entry(Some(T_chip4), U_a1, <<>>, Some(D_jan))
E_a2 == Entry(Some(T_chip3), U_a2, <<>>, Some(D_feb))
E_a3 == Entry(Some(T_sport), U_a3, <<>>, None)
E_a4 == Entry(Some(T_down), U_a4, <<>>, None)
E_a5 == Entry(Some(T_bot), U_a5, <<>>, Some(D_feb))
E_x3 == Entry(Some(T_plain), U_a3, <<"a","l","l"," ","a","b","o","u","t"," ","a","i">>, Some(D_feb))
E_no == Entry(None, U_a1, <<>>, None)

\* the feeds of the model: the search feed and the feeds of three configured
\* names
SearchFeed == "search"
BBCNews == "BBC News"
TechCrunch == "TechCrunch"
GoogleNews == "Google News"

\* a response to requests.get(feed url): it raised (error), or it has a
\* status code and the entries feedparser finds in its body
Response(error, status_code, entries) ==
    [error |-> error, status_code |-> status_code, entries |-> entries]

Worlds ==
    {
     \* every feed answers
     [f \in {SearchFeed, BBCNews, TechCrunch, GoogleNews} |->
        CASE f = SearchFeed -> Response(FALSE, 200, <<E_g1, E_g2>>)
          [] f = BBCNews -> Response(FALSE, 200, <<E_a2, E_a1, E_a3, E_a5>>)
          [] f = TechCrunch -> Response(FALSE, 200, <<E_a1, E_x3, E_a4>>)
          [] f = GoogleNews -> Response(FALSE, 200, <<E_no>>)],
     \* the search and one named feed fail
     [f \in {SearchFeed, BBCNews, TechCrunch, GoogleNews} |->
        CASE f = SearchFeed -> Response(TRUE, 0, <<>>)
          [] f = BBCNews -> Response(FALSE, 503, <<E_a2, E_a3>>)
          [] f = TechCrunch -> Response(FALSE, 200, <<E_a1, E_x3>>)
          [] f = GoogleNews -> Response(FALSE, 200, <<E_a3>>)],
     \* the named feeds fail, each in its own way
     [f \in {SearchFeed, BBCNews, TechCrunch, GoogleNews} |->
        CASE f = SearchFeed -> Response(FALSE, 200, <<E_a2, E_g1>>)
          [] f = BBCNews -> Response(TRUE, 0, <<>>)
          [] f = TechCrunch -> Response(FALSE, 404, <<E_a1>>)
          [] f = GoogleNews -> Response(FALSE, 503, <<E_a1>>)]
    }

---------------------------------------------------------------------------
(* Variant 1 (news_scraper.py): the feed sources                           *)

\* _is_relevant_article: the least content length it looks at
RelevanceMinLength == 50
\* the entries of a feed looked at: general sources, technology sources
GeneralEntryCap == 10
TechEntryCap == 15
HttpOk == 200

NoTitle == <<"N","o"," ","t","i","t","l","e">>
GoogleHost == <<"n","e","w","s",".","g","o","o","g","l","e",".","c","o","m">>
UrlParam == <<"u","r","l","=">>

\* what a source query hands back: the articles and whether an exception
\* left it; every source catches its own exceptions and returns its list
Returned(articles) == [raised |-> FALSE, articles |-> articles]

\* any(term.lower() in title.lower() for term in terms if term.strip())
TitleRelevant(title, terms) ==
    \E k \in DOMAIN terms :
        Strip(terms[k]) # <<>> /\ Contains(Lower(title), Lower(terms[k]))

\* the term matched as written, not lower-cased
TermFoundCaseSensitive(term, content_lower) ==
    LET term_stripped == Strip(term)
    IN  term_stripped # <<>> /\ Contains(content_lower, term_stripped)

\* `term_lower and term_lower in content_lower` for one term of the loop
TermFound(term, content_lower) ==
    LET term_lower == Strip(Lower(term))
    IN  term_lower # <<>> /\ Contains(content_lower, term_lower)

\* the filter without its test of the content's length
IsRelevantAnyLength(content, search_terms) ==
    \E k \in DOMAIN search_terms : TermFound(search_terms[k], Lower(content))

\* NewsScraper._is_relevant_article: relevance_score > 0
_is_relevant_article(content, search_terms) ==
    IF content = <<>> \/ Len(content) < RelevanceMinLength THEN FALSE
    ELSE \E k \in DOMAIN search_terms : TermFound(search_terms[k], Lower(content))

\* the RSS entry's title and date put into the extracted article
Supplement(article_data, entry) ==
    [article_data EXCEPT
        !.title = IF entry.title # None /\ @ = <<>> THEN entry.title[1] ELSE @,
        !.published_date = IF entry.published # None THEN entry.published[1] ELSE @]

\* the link used as it is
ExtractRealUrlAsIs(google_news_url) ==
    IF google_news_url = <<>> THEN None ELSE Some(google_news_url)

\* NewsScraper._extract_real_url: None or the URL
_extract_real_url(google_news_url) ==
    IF google_news_url = <<>> THEN None
    ELSE IF ~Contains(google_news_url, GoogleHost) THEN Some(google_news_url)
    ELSE LET response == HeadAt(google_news_url) IN
         IF ~response.error /\ response.url # <<>> /\ response.url # google_news_url
         THEN Some(response.url)
         ELSE IF Contains(google_news_url, UrlParam)
              THEN LET url_start == Find(google_news_url, UrlParam, 0) + 4
                       found == Find(google_news_url, <<"&">>, url_start)
                       url_end == IF found = -1 THEN Len(google_news_url) ELSE found
                   IN  Some(Unquote(Slice(google_news_url, url_start, url_end)))
              ELSE Some(google_news_url)

\* _search_google_news: the body of the loop over the entries, as the list
\* of the articles (none or one) the entry adds
SearchEntry(entry, search_query) ==
    LET title == IF entry.title # None THEN entry.title[1] ELSE NoTitle
        article_url == IF Contains(entry.link, GoogleHost)
                       THEN _extract_real_url(entry.link)
                       ELSE Some(entry.link)
    IN  IF ~TitleRelevant(title, SplitSpace(search_query)) THEN <<>>
        ELSE IF article_url = None \/ article_url[1] = <<>> THEN <<>>
        ELSE LET article_data ==
                     _extract_article_content(article_url[1], GoogleNews,
                                              PageAt(article_url[1]))
             IN  IF article_data = None THEN <<>>
                 ELSE <<Supplement(article_data[1], entry)>>

\* NewsScraper._search_google_news
_search_google_news(search_query, max_articles, feeds) ==
    LET response == feeds[SearchFeed] IN
    IF response.error THEN Returned(<<>>)
    ELSE IF response.status_code # HttpOk THEN Returned(<<>>)
    ELSE LET entries == Take(response.entries, max_articles)
         IN  Returned(Flatten([k \in DOMAIN entries |->
                                  SearchEntry(entries[k], search_query)]))

\* the entry's article accepted without the Relevance Filter
RssEntryUnvalidated(entry, source, search_terms) ==
    LET article_data == _extract_article_content(entry.link, source, PageAt(entry.link))
    IN  IF article_data = None THEN <<>> ELSE <<Supplement(article_data[1], entry)>>

\* _scrape_rss_source: the body of the loop over the entries
RssEntry(entry, source, search_terms) ==
    LET article_data == _extract_article_content(entry.link, source, PageAt(entry.link))
    IN  IF article_data = None THEN <<>>
        ELSE LET supplemented == Supplement(article_data[1], entry)
             IN  IF _is_relevant_article(supplemented.content, search_terms)
                 THEN <<supplemented>> ELSE <<>>

\* _scrape_rss_source without the test of the status code
ScrapeRssAnyStatus(source, search_terms, start_date, end_date, feeds) ==
    LET response == feeds[source] IN
    IF response.error THEN Returned(<<>>)
    ELSE LET entries == Take(response.entries, GeneralEntryCap)
         IN  Returned(Flatten([k \in DOMAIN entries |->
                                  RssEntry(entries[k], source, search_terms)]))

\* NewsScraper._scrape_rss_source
_scrape_rss_source(source, search_terms, start_date, end_date, feeds) ==
    LET response == feeds[source] IN
    IF response.error THEN Returned(<<>>)
    ELSE IF response.status_code # HttpOk THEN Returned(<<>>)
    ELSE LET entries == Take(response.entries, GeneralEntryCap)
         IN  Returned(Flatten([k \in DOMAIN entries |->
                                  RssEntry(entries[k], source, search_terms)]))

\* _scrape_tech_rss_source: the body of the loop over the entries
TechEntry(entry, source_name, search_terms) ==
    LET title == IF entry.title # None THEN entry.title[1] ELSE NoTitle
        description == IF entry.summary # <<>> THEN entry.summary ELSE entry.description
        article_data == _extract_article_content(entry.link, source_name,
                                                 PageAt(entry.link))
    IN  IF TitleRelevant(title, search_terms)
        THEN (IF article_data = None THEN <<>>
              ELSE <<Supplement(article_data[1], entry)>>)
        ELSE IF TitleRelevant(description, search_terms)
        THEN (IF article_data # None
                 /\ _is_relevant_article(article_data[1].content, search_terms)
              THEN <<Supplement(article_data[1], entry)>> ELSE <<>>)
        ELSE <<>>

\* NewsScraper._scrape_tech_rss_source
_scrape_tech_rss_source(source_name, search_terms, start_date, end_date, feeds) ==
    LET response == feeds[source_name] IN
    IF response.error THEN Returned(<<>>)
    ELSE IF response.status_code # HttpOk THEN Returned(<<>>)
    ELSE LET entries == Take(response.entries, TechEntryCap)
         IN  Returned(Flatten([k \in DOMAIN entries |->
                                  TechEntry(entries[k], source_name, search_terms)]))

---------------------------------------------------------------------------
(* Variant 2 (news_scraper2.py): the feed sources                          *)

\* RSSSource._is_entry_relevant
_is_entry_relevant(entry, search_terms) ==
    LET title == IF entry.title # None THEN Lower(entry.title[1]) ELSE <<>>
        text_to_check == title \o <<" ">> \o Lower(entry.summary)
                               \o <<" ">> \o Lower(entry.description)
    IN  \E k \in DOMAIN search_terms :
            /\ Strip(search_terms[k]) # <<>>
            /\ Contains(text_to_check, Strip(Lower(search_terms[k])))

\* RSSSource._extract_article_from_entry: None or the article
_extract_article_from_entry(entry, name) ==
    LET content == _extract_content_from_url(entry.link, PageAt(entry.link))
    IN  IF content = None \/ content[1] = <<>> \/ Len(content[1]) < MinContentLength
        THEN None
        ELSE Some(Article(
                 IF entry.title # None THEN entry.title[1] ELSE UntitledArticle,
                 content[1], name, entry.link,
                 IF entry.published # None THEN entry.published[1] ELSE NowStamp,
                 IF entry.author # None THEN entry.author[1] ELSE Unknown))

\* RSSSource.fetch_articles: the body of the loop over the entries
FeedEntry(entry, name, search_terms) ==
    IF ~_is_entry_relevant(entry, search_terms) THEN <<>>
    ELSE _extract_article_from_entry(entry, name)

\* RSSSource.fetch_articles of the source `name` with self.max_entries
RSSSource_fetch_articles(name, max_entries, search_terms, max_articles, feeds) ==
    LET response == feeds[name] IN
    IF response.error THEN Returned(<<>>)
    ELSE IF response.status_code # HttpOk THEN Returned(<<>>)
    ELSE LET entries == Take(response.entries,
                             IF max_entries < max_articles THEN max_entries
                                                           ELSE max_articles)
         IN  Returned(Flatten([k \in DOMAIN entries |->
                                  FeedEntry(entries[k], name, search_terms)]))

\* GoogleNewsSource._extract_real_url
GoogleNewsSource_extract_real_url(google_url) ==
    IF ~Contains(google_url, GoogleHost) THEN google_url
    ELSE LET response == HeadAt(google_url) IN
         IF response.error THEN google_url
         ELSE IF response.url # <<>> /\ response.url # google_url THEN response.url
         ELSE IF Contains(google_url, UrlParam)
              THEN LET url_start == Find(google_url, UrlParam, 0) + 4
                       found == Find(google_url, <<"&">>, url_start)
                       url_end == IF found = -1 THEN Len(google_url) ELSE found
                   IN  Unquote(Slice(google_url, url_start, url_end))
              ELSE google_url

\* GoogleNewsSource.fetch_articles: the body of the loop over the entries
GoogleEntry(entry) ==
    LET real_url == GoogleNewsSource_extract_real_url(entry.link)
        content == _extract_content_from_url(real_url, PageAt(real_url))
    IN  IF real_url = <<>> THEN <<>>
        ELSE IF content = None \/ Len(content[1]) < MinContentLength THEN <<>>
        ELSE <<Article(
                 IF entry.title # None THEN entry.title[1] ELSE UntitledArticle,
                 content[1], GoogleNews, real_url,
                 IF entry.published # None THEN entry.published[1] ELSE NowStamp,
                 Unknown)>>

\* GoogleNewsSource.fetch_articles
GoogleNewsSource_fetch_articles(search_terms, max_articles, feeds) ==
    LET response == feeds[SearchFeed] IN
    IF response.error THEN Returned(<<>>)
    ELSE IF response.status_code # HttpOk THEN Returned(<<>>)
    ELSE LET entries == Take(response.entries, max_articles)
         IN  Returned(Flatten([k \in DOMAIN entries |-> GoogleEntry(entries[k])]))

---------------------------------------------------------------------------
(* The Scraping Orchestrator: scrape_news of both variants                 *)

\* the configured sources: self.rss_sources and self.tech_rss_sources of
\* variant 1; rss_feeds, tech_feeds and the keys of self.sources of variant 2
rss_sources == {"BBC News", "Reuters", "CNN", "AP News", "Yahoo News", "Google News"}
tech_rss_sources == {"TechCrunch", "The Verge", "Ars Technica", "Wired", "Engadget"}
rss_feeds == {"BBC News", "Reuters", "CNN", "AP News", "Yahoo News"}
tech_feeds == {"TechCrunch", "The Verge", "Ars Technica", "Wired", "Engadget"}
sources2 == rss_feeds \cup tech_feeds \cup {"Google News"}

\* time.sleep(1)
RateLimitPause == 1

\* the source has no budget parameter (variant 1's named sources)
NoBudget == -1

\* `source in self.rss_sources` or `in self.tech_rss_sources` (variant 1),
\* `source_name in self.sources` (variant 2)
IsKnown(v, source) ==
    IF v = 1 THEN source \in rss_sources \cup tech_rss_sources
    ELSE source \in sources2

\* the search asked for max_articles articles
SearchBudgetFull(max_articles) == max_articles

\* the number of articles asked of the search: max_articles // 2
SearchBudget(max_articles) == max_articles \div 2

\* the share without its floor of 1
ArticlesPerSourceUnfloored(srcs, max_articles) ==
    IF srcs # <<>> THEN max_articles \div Len(srcs) ELSE max_articles

\* variant 2: max(1, max_articles // len(sources)) if sources else max_articles
articles_per_source(srcs, max_articles) ==
    IF srcs # <<>>
    THEN (IF max_articles \div Len(srcs) > 1 THEN max_articles \div Len(srcs) ELSE 1)
    ELSE max_articles

\* the budget handed to a named source
NamedBudget(v, srcs, max_articles) ==
    IF v = 1 THEN NoBudget ELSE articles_per_source(srcs, max_articles)

\* the query of the search aggregator, the first step of scrape_news
QuerySearchFeed(v, terms, max_articles, world) ==
    IF v = 1
    THEN _search_google_news(JoinSpace(terms), SearchBudget(max_articles), world)
    ELSE GoogleNewsSource_fetch_articles(terms, SearchBudget(max_articles), world)

\* the day number of a published date
DayOf(published) ==
    CASE published = D_jan -> 5
      [] published = D_feb -> 32
      [] OTHER -> 0

\* a named source that keeps the articles published from `from` to `to`
QueryNamedInRange(v, source, terms, from, to, srcs, max_articles, world) ==
    LET r == IF v = 1
             THEN (IF source \in rss_sources
                   THEN _scrape_rss_source(source, terms, from, to, world)
                   ELSE _scrape_tech_rss_source(source, terms, from, to, world))
             ELSE (IF source = GoogleNews
                   THEN GoogleNewsSource_fetch_articles(
                            terms, articles_per_source(srcs, max_articles), world)
                   ELSE RSSSource_fetch_articles(
                            source,
                            IF source \in tech_feeds THEN TechEntryCap ELSE GeneralEntryCap,
                            terms, articles_per_source(srcs, max_articles), world))
        InRange(a) == from <= DayOf(a.published_date) /\ DayOf(a.published_date) <= to
    IN  [r EXCEPT !.articles = SelectSeq(@, InRange)]

\* the query of one known named source, in the loop of scrape_news
QueryNamed(v, source, terms, from, to, srcs, max_articles, world) ==
    IF v = 1
    THEN (IF source \in rss_sources
          THEN _scrape_rss_source(source, terms, from, to, world)
          ELSE _scrape_tech_rss_source(source, terms, from, to, world))
    ELSE (IF source = GoogleNews
          THEN GoogleNewsSource_fetch_articles(
                   terms, articles_per_source(srcs, max_articles), world)
          ELSE RSSSource_fetch_articles(
                   source, IF source \in tech_feeds THEN TechEntryCap ELSE GeneralEntryCap,
                   terms, articles_per_source(srcs, max_articles), world))

\* the cut to max_articles with no run of the Deduplicator
CapWithoutDedupe(v, merged, max_articles) == Take(merged, max_articles)

\* the cut to max_articles before the Deduplicator
CapThenDedupe(v, merged, max_articles) == Dedupe(v, Take(merged, max_articles))

\* the end of scrape_news: the Deduplicator, then articles[:max_articles]
DedupeThenCap(v, merged, max_articles) == Take(Dedupe(v, merged), max_articles)

\* the loop of scrape_news over sources[k..], `merged` collected so far
RECURSIVE ScrapeLoop(_, _, _, _, _, _, _, _, _)
ScrapeLoop(v, terms, srcs, from, to, max_articles, world, k, merged) ==
    IF k > Len(srcs) THEN merged
    ELSE IF ~IsKnown(v, srcs[k])
    THEN ScrapeLoop(v, terms, srcs, from, to, max_articles, world, k + 1, merged)
    ELSE LET r == QueryNamed(v, srcs[k], terms, from, to, srcs, max_articles, world)
         IN  IF r.raised
             THEN ScrapeLoop(v, terms, srcs, from, to, max_articles, world, k + 1, merged)
             ELSE IF Len(merged \o r.articles) >= max_articles
             THEN merged \o r.articles
             ELSE ScrapeLoop(v, terms, srcs, from, to, max_articles, world, k + 1,
                             merged \o r.articles)

\* scrape_news as a function of its arguments and the outside world: the
\* list it returns
scrape_news(v, terms, srcs, from, to, max_articles, world) ==
    LET r == QuerySearchFeed(v, terms, max_articles, world)
    IN  DedupeThenCap(v, ScrapeLoop(v, terms, srcs, from, to, max_articles, world,
                                    1, r.articles),
                      max_articles)

---------------------------------------------------------------------------
(* Inputs of scrape_news                                                   *)

MaxSources == 2
MaxArticles == 3

UnknownName == "Daily Planet"
SourceNames == {BBCNews, TechCrunch, GoogleNews, UnknownName}

\* the lists of distinct source names of a length up to n
SourceLists(n) == {s \in SeqsUpTo(SourceNames, n) :
                      \A a, b \in DOMAIN s : a # b => s[a] # s[b]}

\* search terms: one with capitals, one that is blank
TermLists == {<< <<"A","I">>, <<" ">> >>}

\* date ranges, as day numbers
DateRanges == {[from |-> 1, to |-> 10], [from |-> 20, to |-> 40]}

\* one step of the log: a query of a feed (idx 0: the search, idx k: the
\* k-th name of sources) with the articles it returned, or a pause
QueryEvent(idx, name, budget, got) ==
    [kind |-> "query", idx |-> idx, name |-> name, budget |-> budget,
     got |-> got, secs |-> 0]
SleepEvent(idx, secs) ==
    [kind |-> "sleep", idx |-> idx, name |-> "", budget |-> 0, got |-> <<>>,
     secs |-> secs]
\* a run of the Deduplicator
DedupeEvent ==
    [kind |-> "dedupe", idx |-> 0, name |-> "", budget |-> 0, got |-> <<>>,
     secs |-> 0]

ScrapeInit ==
    /\ sn_impl \in {1, 2}
    /\ sn_search_terms \in TermLists
    /\ sn_sources \in SourceLists(MaxSources)
    /\ \E d \in DateRanges : sn_start_date = d.from /\ sn_end_date = d.to
    /\ sn_max_articles \in 0..MaxArticles
    /\ sn_feeds \in Worlds
    /\ sn_pc = "search"
    /\ sn_i = 0
    /\ sn_articles = <<>>
    /\ sn_result = <<>>
    /\ sn_log = <<>>

sc_inputs == <<sn_impl, sn_search_terms, sn_sources, sn_start_date, sn_end_date, sn_max_articles, sn_feeds>>

\* the search aggregator is queried (variant 1 catches what it raises,
\* variant 2 lets it pass)
QuerySearch ==
    /\ sn_pc = "search"
    /\ LET r == QuerySearchFeed(sn_impl, sn_search_terms, sn_max_articles, sn_feeds) IN
       /\ sn_articles' = sn_articles \o r.articles
       /\ sn_log' = Append(sn_log, QueryEvent(0, SearchFeed, SearchBudget(sn_max_articles),
                                        r.articles))
       /\ sn_pc' = IF r.raised /\ sn_impl = 2 THEN "raised" ELSE "loop"
    /\ sn_i' = 1
    /\ UNCHANGED <<sc_inputs, sn_result, sc_others>>

\* `for source in sources`: a name that is no configured source is skipped
SkipUnknown ==
    /\ sn_pc = "loop"
    /\ sn_i <= Len(sn_sources)
    /\ ~IsKnown(sn_impl, sn_sources[sn_i])
    /\ sn_i' = sn_i + 1
    /\ UNCHANGED <<sc_inputs, sn_pc, sn_articles, sn_result, sn_log, sc_others>>

\* a configured source is queried and its articles are added; an exception
\* is caught and the loop goes on with the next name
QuerySource ==
    /\ sn_pc = "loop"
    /\ sn_i <= Len(sn_sources)
    /\ IsKnown(sn_impl, sn_sources[sn_i])
    /\ LET r == QueryNamed(sn_impl, sn_sources[sn_i], sn_search_terms, sn_start_date, sn_end_date,
                           sn_sources, sn_max_articles, sn_feeds) IN
       /\ sn_articles' = sn_articles \o r.articles
       /\ sn_log' = Append(sn_log, QueryEvent(sn_i, sn_sources[sn_i],
                                        NamedBudget(sn_impl, sn_sources, sn_max_articles),
                                        r.articles))
       /\ sn_pc' = IF r.raised THEN "loop" ELSE "sleep"
       /\ sn_i' = IF r.raised THEN sn_i + 1 ELSE sn_i
    /\ UNCHANGED <<sc_inputs, sn_result, sc_others>>

\* time.sleep(1) after the source's articles were added
Sleep ==
    /\ sn_pc = "sleep"
    /\ sn_log' = Append(sn_log, SleepEvent(sn_i, RateLimitPause))
    /\ sn_pc' = "check"
    /\ UNCHANGED <<sc_inputs, sn_i, sn_articles, sn_result, sc_others>>

\* `if len(articles) >= max_articles: break`
CheckCap ==
    /\ sn_pc = "check"
    /\ IF Len(sn_articles) >= sn_max_articles
       THEN sn_pc' = "finish" /\ sn_i' = sn_i
       ELSE sn_pc' = "loop" /\ sn_i' = sn_i + 1
    /\ UNCHANGED <<sc_inputs, sn_articles, sn_result, sn_log, sc_others>>

\* the loop has run out of names
LoopEnd ==
    /\ sn_pc = "loop"
    /\ sn_i > Len(sn_sources)
    /\ sn_pc' = "finish"
    /\ UNCHANGED <<sc_inputs, sn_i, sn_articles, sn_result, sn_log, sc_others>>

\* the Deduplicator on the merged list, the cut to max_articles, the return
Finish ==
    /\ sn_pc = "finish"
    /\ sn_result' = DedupeThenCap(sn_impl, sn_articles, sn_max_articles)
    /\ sn_log' = Append(sn_log, DedupeEvent)
    /\ sn_pc' = "done"
    /\ UNCHANGED <<sc_inputs, sn_i, sn_articles, sc_others>>

---------------------------------------------------------------------------
(* One call of the Relevance Filter                                        *)

\* the most terms handed to the filter
MaxTerms == 2

\* a content of n characters that starts with `start` (cut to n) and goes on
\* with "x"
RelevanceText(start, n) ==
    [k \in 1..n |-> IF k <= Len(start) THEN start[k] ELSE "x"]

RelevanceStarts ==
    {<<>>, <<"A","i"," ","l","a","b">>, <<"m","i","c","r","o","C","H","I","P","s">>}
RelevanceLengths ==
    {0, RelevanceMinLength - 1, RelevanceMinLength, MinContentLength - 1, MinContentLength}
RelevanceContents == {RelevanceText(st, n) : st \in RelevanceStarts, n \in RelevanceLengths}
RelevanceTerms ==
    {<<"A","I">>, <<" ","c","h","i","p"," ">>, <<" "," ">>, <<>>, <<"z","z">>}

RelevanceInit ==
    /\ rf_content \in RelevanceContents
    /\ rf_terms \in SeqsUpTo(RelevanceTerms, MaxTerms)
    /\ rf_result = FALSE
    /\ rf_pc = "call"

\* one call of _is_relevant_article
CallRelevance ==
    /\ rf_pc = "call"
    /\ rf_result' = _is_relevant_article(rf_content, rf_terms)
    /\ rf_pc' = "returned"
    /\ UNCHANGED <<rf_content, rf_terms, rf_others>>

---------------------------------------------------------------------------
(* One call of a feed source                                               *)

\* the most entries in a feed
MaxEntries == 2

SourceEntries == {E_g1, E_g2, E_g3, E_a1, E_a2, E_a3, E_a5, E_x3, E_no}
SourceBudgets == {1, 2}

\* every feed answers 200 with the entries so_entries
SourceFeeds ==
    [f \in {SearchFeed, BBCNews, TechCrunch, GoogleNews} |-> Response(FALSE, HttpOk, so_entries)]

SourceInit ==
    /\ so_impl \in {1, 2}
    /\ so_kind \in {"search", "rss", "tech"}
    /\ so_terms \in TermLists
    /\ so_budget \in SourceBudgets
    /\ so_entries \in SeqsUpTo(SourceEntries, MaxEntries)
    /\ so_result = <<>>
    /\ so_pc = "call"

\* one call of the source: the search, a general feed or a technology feed
CallSource ==
    /\ so_pc = "call"
    /\ so_result' =
          (CASE so_kind = "search" ->
                  IF so_impl = 1
                  THEN _search_google_news(JoinSpace(so_terms), so_budget, SourceFeeds)
                  ELSE GoogleNewsSource_fetch_articles(so_terms, so_budget, SourceFeeds)
             [] so_kind = "rss" ->
                  IF so_impl = 1
                  THEN _scrape_rss_source(BBCNews, so_terms, 0, 0, SourceFeeds)
                  ELSE RSSSource_fetch_articles(BBCNews, GeneralEntryCap, so_terms,
                                                so_budget, SourceFeeds)
             [] so_kind = "tech" ->
                  IF so_impl = 1
                  THEN _scrape_tech_rss_source(TechCrunch, so_terms, 0, 0, SourceFeeds)
                  ELSE RSSSource_fetch_articles(TechCrunch, TechEntryCap, so_terms,
                                                so_budget, SourceFeeds)).articles
    /\ so_pc' = "returned"
    /\ UNCHANGED <<so_impl, so_kind, so_terms, so_budget, so_entries, so_others>>

---------------------------------------------------------------------------
(* The scoring of one article (llm_analyzer.py)                            *)
(*                                                                         *)
(* A confidence is a number of hundredths: 80 is 0.8.  A request to the    *)
(* scoring oracle either fails (the call raises, or its answer is no JSON  *)
(* object) with a message, or answers; a field the answer's JSON object    *)
(* lacks is <<>>.                                                          *)

NoContentAvailable == <<"N","o"," ","c","o","n","t","e","n","t"," ","a","v","a","i","l","a","b","l","e"," ","f","o","r"," ","a","n","a","l","y","s","i","s">>
UnableToGenerateSummary == <<"U","n","a","b","l","e"," ","t","o"," ","g","e","n","e","r","a","t","e"," ","s","u","m","m","a","r","y",":"," ">>
ErrorExtractingInsights == <<"E","r","r","o","r"," ","e","x","t","r","a","c","t","i","n","g"," ","i","n","s","i","g","h","t","s",":"," ">>
ErrorAnalyzingArticle == <<"E","r","r","o","r"," ","a","n","a","l","y","z","i","n","g"," ","a","r","t","i","c","l","e",":"," ">>
Neutral == "neutral"
UnknownImpact == "unknown"
DefaultConfidence == 50
FullConfidence == 100

\* an oracle request that failed with the exception text `message`
Failed(message) == [ok |-> FALSE, message |-> message, answer |-> <<>>]
\* an oracle request answered with `answer`
Answered(answer) == [ok |-> TRUE, message |-> <<>>, answer |-> answer]

\* max(0.0, min(1.0, confidence))
Clamp(confidence) ==
    IF confidence < 0 THEN 0
    ELSE IF confidence > FullConfidence THEN FullConfidence ELSE confidence

\* LLMAnalyzer._generate_summary
_generate_summary(reply) ==
    IF reply.ok THEN Strip(reply.answer) ELSE UnableToGenerateSummary \o reply.message

\* LLMAnalyzer._analyze_sentiment
_analyze_sentiment(reply) ==
    IF reply.ok
    THEN [sentiment |-> IF reply.answer.sentiment # None THEN reply.answer.sentiment[1]
                        ELSE Neutral,
          confidence |-> Clamp(IF reply.answer.confidence # None
                               THEN reply.answer.confidence[1] ELSE DefaultConfidence)]
    ELSE [sentiment |-> Neutral, confidence |-> 0]

\* LLMAnalyzer._extract_key_insights
_extract_key_insights(reply) ==
    IF reply.ok
    THEN (IF reply.answer.insights # None THEN reply.answer.insights[1] ELSE <<>>)
    ELSE <<ErrorExtractingInsights \o reply.message>>

\* LLMAnalyzer._assess_market_impact
_assess_market_impact(reply) ==
    IF reply.ok
    THEN (IF reply.answer.impact # None THEN reply.answer.impact[1] ELSE UnknownImpact)
    ELSE UnknownImpact

\* LLMAnalyzer.analyze_article; each of the four helpers catches what its
\* request raises, so nothing reaches the except clause of analyze_article
analyze_article(article, oracle) ==
    IF article.content = <<>>
    THEN [sentiment |-> Neutral, confidence_score |-> 0, summary |-> NoContentAvailable,
          key_insights |-> <<>>, market_impact |-> UnknownImpact]
    ELSE LET summary == _generate_summary(oracle.summary)
             sentiment_analysis == _analyze_sentiment(oracle.sentiment)
             key_insights == _extract_key_insights(oracle.insights)
             market_impact == _assess_market_impact(oracle.impact)
         IN  [sentiment |-> sentiment_analysis.sentiment,
              confidence_score |-> sentiment_analysis.confidence,
              summary |-> summary,
              key_insights |-> key_insights,
              market_impact |-> market_impact]

Timeout == <<"t","i","m","e","d"," ","o","u","t">>
SummaryReplies == {Failed(Timeout), Answered(<<" ","C","h","i","p","s"," ","s","e","l","l","."," ">>)}
SentimentReplies ==
    {Failed(Timeout),
     Answered([sentiment |-> Some("positive"), confidence |-> Some(80)]),
     Answered([sentiment |-> Some("negative"), confidence |-> Some(150)]),
     Answered([sentiment |-> None, confidence |-> None])}
InsightsReplies ==
    {Failed(Timeout),
     Answered([insights |-> Some(<<<<"S","a","l","e","s"," ","u","p">>>>)]),
     Answered([insights |-> None])}
ImpactReplies ==
    {Failed(Timeout), Answered([impact |-> Some("high")]), Answered([impact |-> None])}

AnalyzeInit ==
    /\ an_article \in {[title |-> T_chip3, content |-> c] : c \in {<<>>, <<"A","I"," ","c","h","i","p">>}}
    /\ an_oracle \in [summary : SummaryReplies, sentiment : SentimentReplies,
                      insights : InsightsReplies, impact : ImpactReplies]
    /\ an_result = <<>>
    /\ an_pc = "call"

\* one call of analyze_article
CallAnalyze ==
    /\ an_pc = "call"
    /\ an_result' = analyze_article(an_article, an_oracle)
    /\ an_pc' = "returned"
    /\ UNCHANGED <<an_article, an_oracle, an_others>>

---------------------------------------------------------------------------
(* Binary floating point numbers                                           *)
(* A Python float is a double: 53 significant bits, every operation        *)
(* rounded to the nearest double, to the even one on a tie.  A double of   *)
(* the model is zero or lies between 2^-8 and 2^19, and is written as the  *)
(* integer it is in units of 2^-60; that integer is kept as 8 digits of    *)
(* base 2^10, the lowest first.                                            *)

Digits == 1..8

\* n < 2^30 as digits
Wide(n) == <<n % 1024, (n \div 1024) % 1024, n \div (1024 * 1024), 0, 0, 0, 0, 0>>

\* the integer n < 2^20 in units of 2^-60
Units(n) == <<0, 0, 0, 0, 0, 0, n % 1024, n \div 1024>>

\* x * m for a small m
RECURSIVE MulCarry(_, _, _)
MulCarry(x, m, k) ==
    IF k = 1 THEN 0 ELSE (x[k - 1] * m + MulCarry(x, m, k - 1)) \div 1024
MulSmall(x, m) ==
    LET digit(k) == (x[k] * m + MulCarry(x, m, k)) % 1024
    IN  <<digit(1), digit(2), digit(3), digit(4), digit(5), digit(6), digit(7), digit(8)>>

\* x + y
RECURSIVE AddCarry(_, _, _)
AddCarry(x, y, k) ==
    IF k = 1 THEN 0 ELSE (x[k - 1] + y[k - 1] + AddCarry(x, y, k - 1)) \div 1024
Add(x, y) ==
    LET digit(k) == (x[k] + y[k] + AddCarry(x, y, k)) % 1024
    IN  <<digit(1), digit(2), digit(3), digit(4), digit(5), digit(6), digit(7), digit(8)>>

\* quotient and remainder of x by a small d < 2^20
RECURSIVE RemAbove(_, _, _)
RemAbove(x, d, k) ==
    IF k = 8 THEN 0 ELSE (RemAbove(x, d, k + 1) * 1024 + x[k + 1]) % d
DivSmall(x, d) ==
    LET digit(k) == (RemAbove(x, d, k) * 1024 + x[k]) \div d
    IN  [quotient |-> <<digit(1), digit(2), digit(3), digit(4),
                        digit(5), digit(6), digit(7), digit(8)>>,
         remainder |-> (RemAbove(x, d, 1) * 1024 + x[1]) % d]

\* x >= y
AtLeast(x, y) ==
    LET differ == {k \in Digits : x[k] # y[k]}
    IN  differ = {} \/ x[CHOOSE k \in differ : \A l \in differ : l <= k]
                         > y[CHOOSE k \in differ : \A l \in differ : l <= k]

\* the number of bits of x
BitLen(x) ==
    LET used == {k \in Digits : x[k] # 0}
    IN  IF used = {} THEN 0
        ELSE LET top == CHOOSE k \in used : \A l \in used : l <= k
             IN  10 * (top - 1)
                   + (CHOOSE b \in 1..10 : 2^(b - 1) <= x[top] /\ x[top] < 2^b)

\* the double nearest to n / d, the even one on a tie: n / d is cut to its
\* 53 highest bits and rounded on what is cut off
RoundToDouble(n, d) ==
    LET len == BitLen(DivSmall(n, d).quotient)
    IN  CASE BitLen(n) = 0 -> n
          [] len >= 53 ->
              LET cut == 2^(len - 53)
                  parts == DivSmall(n, d * cut)
                  up == \/ 2 * parts.remainder > d * cut
                        \/ 2 * parts.remainder = d * cut /\ parts.quotient[1] % 2 = 1
              IN  MulSmall(IF up THEN Add(parts.quotient, Wide(1)) ELSE parts.quotient, cut)

\* the double a decimal literal num / den stands for
ToFloat(num, den) == RoundToDouble(Units(num), den)

\* round(x, 2) in hundredths: the nearest hundredth of the double's exact
\* value, the even one on a tie
RoundHundredths(x) ==
    LET scaled == MulSmall(x, 100)
        whole == scaled[7] + 1024 * scaled[8]
        rest == <<scaled[1], scaled[2], scaled[3], scaled[4], scaled[5], scaled[6], 0, 0>>
        half == <<0, 0, 0, 0, 0, 512, 0, 0>>
    IN  IF rest = half THEN (IF whole % 2 = 0 THEN whole ELSE whole + 1)
        ELSE IF AtLeast(rest, half) THEN whole + 1
        ELSE whole

---------------------------------------------------------------------------
(* The market impact of a batch (data_processor.py)                        *)
(* Weights are written in tenths and confidences in hundredths: the        *)
(* confidence 30 is the double that 0.3 stands for.                        *)

\* impact_weights, in tenths
impact_weights == [high |-> 30, medium |-> 20, low |-> 10, minimal |-> 5, unknown |-> 10]
\* impact_weights.get(impact, 1.0), in tenths
OtherWeight == 10
\* article.get('confidence_score', 0.5), in hundredths
MissingConfidence == 50
\* the thresholds of the levels, in hundredths
HighThreshold == 250
MediumThreshold == 150
LowThreshold == 70
\* [:5]
FactorCap == 5
UnknownTitle == <<"U","n","k","n","o","w","n">>

\* article.get('market_impact', 'unknown')
ImpactOf(article) ==
    IF article.market_impact = None THEN "unknown" ELSE article.market_impact[1]

\* article.get('confidence_score', 0.5)
ConfidenceOf(article) ==
    IF article.confidence_score = None THEN MissingConfidence
    ELSE article.confidence_score[1]

\* impact_weights.get(impact, 1.0)
WeightOf(impact) ==
    IF impact \in DOMAIN impact_weights THEN impact_weights[impact] ELSE OtherWeight

\* the doubles of the confidences and of the products weight * confidence
FloatOfConfidence == [c \in 0..100 |-> ToFloat(c, 100)]
FloatOfProduct ==
    [w \in {5, 10, 20, 30}, c \in 0..100 |->
        RoundToDouble(MulSmall(FloatOfConfidence[c], w), 10)]

\* weight = impact_weights.get(impact, 1.0) * confidence
Contribution(article) ==
    FloatOfProduct[WeightOf(ImpactOf(article)), ConfidenceOf(article)]

\* total_score after the loop: 0 + weight is the weight, every further
\* sum is rounded
RECURSIVE TotalScore(_)
TotalScore(articles) ==
    IF Len(articles) = 1 THEN Contribution(articles[1])
    ELSE RoundToDouble(Add(TotalScore(SubSeq(articles, 1, Len(articles) - 1)),
                           Contribution(articles[Len(articles)])), 1)

\* average_score = total_score / total_weight
AverageScore(articles) == RoundToDouble(TotalScore(articles), Len(articles))

HighThresholdFloat == ToFloat(HighThreshold, 100)
MediumThresholdFloat == ToFloat(MediumThreshold, 100)
LowThresholdFloat == ToFloat(LowThreshold, 100)

\* medium from an average of 1.0
LevelMediumFromOne(average_score) ==
    IF AtLeast(average_score, HighThresholdFloat) THEN "high"
    ELSE IF AtLeast(average_score, ToFloat(100, 100)) THEN "medium"
    ELSE IF AtLeast(average_score, LowThresholdFloat) THEN "low"
    ELSE "minimal"

\* the chain of comparisons of average_score with the thresholds
LevelOf(average_score) ==
    IF AtLeast(average_score, HighThresholdFloat) THEN "high"
    ELSE IF AtLeast(average_score, MediumThresholdFloat) THEN "medium"
    ELSE IF AtLeast(average_score, LowThresholdFloat) THEN "low"
    ELSE "minimal"

\* the entry of impact_factors of an article
Factor(article) ==
    [title |-> IF article.title = None THEN UnknownTitle ELSE article.title[1],
     impact |-> ImpactOf(article),
     confidence |-> ConfidenceOf(article)]

\* impact_factors after the loop
impact_factors(articles) ==
    LET high_or_medium(article) == ImpactOf(article) \in {"high", "medium"}
        kept == SelectSeq(articles, high_or_medium)
    IN  [k \in DOMAIN kept |-> Factor(kept[k])]

\* sorted by confidence, the lowest first
SortedByConfidenceAscending(factors) ==
    LET before(i, j) ==
            \/ factors[i].confidence < factors[j].confidence
            \/ factors[i].confidence = factors[j].confidence /\ i < j
        rank(j) == Cardinality({i \in DOMAIN factors : before(i, j)}) + 1
    IN  [k \in DOMAIN factors |-> factors[CHOOSE j \in DOMAIN factors : rank(j) = k]]

\* sorted(factors, key=lambda x: x['confidence'], reverse=True): a stable
\* sort, equal confidences keep their order
SortedByConfidence(factors) ==
    LET before(i, j) ==
            \/ factors[i].confidence > factors[j].confidence
            \/ factors[i].confidence = factors[j].confidence /\ i < j
        rank(j) == Cardinality({i \in DOMAIN factors : before(i, j)}) + 1
    IN  [k \in DOMAIN factors |-> factors[CHOOSE j \in DOMAIN factors : rank(j) = k]]

\* the empty batch given the level 'unknown'
ImpactOfNothingUnknown(articles) ==
    IF articles = <<>>
    THEN [score |-> 0, level |-> "unknown", factors |-> <<>>]
    ELSE [score |-> RoundHundredths(AverageScore(articles)),
          level |-> LevelOf(AverageScore(articles)),
          factors |-> Take(SortedByConfidence(impact_factors(articles)), FactorCap)]

\* DataProcessor.calculate_market_impact_score
calculate_market_impact_score(articles) ==
    IF articles = <<>>
    THEN [score |-> 0, level |-> "minimal", factors |-> <<>>]
    ELSE [score |-> RoundHundredths(AverageScore(articles)),
          level |-> LevelOf(AverageScore(articles)),
          factors |-> Take(SortedByConfidence(impact_factors(articles)), FactorCap)]

\* analyzed articles: impact and confidence present or missing
MaxBatch == 2
ImpactTitles == [c \in {30, 50, 70, 100} |->
                    IF c = 30 THEN T_chip3 ELSE IF c = 50 THEN T_sport
                    ELSE IF c = 70 THEN T_down ELSE T_bot]
ImpactPool ==
    {[title |-> IF c = None THEN None ELSE Some(ImpactTitles[c[1]]),
      market_impact |-> i, confidence_score |-> c] :
        i \in {None, Some("high"), Some("medium"), Some("low"), Some("minimal"),
               Some("unknown"), Some("severe")},
        c \in {None, Some(30), Some(50), Some(70), Some(100)}}
ShortBatches == UNION {[1..n -> ImpactPool] : n \in 0..MaxBatch}

\* the batch of four: high 0.9, medium 0.5, low 0.3, minimal 0.2
ExampleBatch ==
    << [title |-> Some(T_chip3), market_impact |-> Some("high"), confidence_score |-> Some(90)],
       [title |-> Some(T_sport), market_impact |-> Some("medium"), confidence_score |-> Some(50)],
       [title |-> Some(T_down), market_impact |-> Some("low"), confidence_score |-> Some(30)],
       [title |-> Some(T_bot), market_impact |-> Some("minimal"), confidence_score |-> Some(20)] >>

\* batches with more high and medium articles than the factors hold
MaxExcess == 1
LongPool ==
    { [title |-> Some(T_chip3), market_impact |-> Some("high"), confidence_score |-> Some(30)],
      [title |-> Some(T_sport), market_impact |-> Some("medium"), confidence_score |-> Some(90)],
      [title |-> Some(T_down), market_impact |-> Some("high"), confidence_score |-> Some(90)],
      [title |-> Some(T_bot), market_impact |-> Some("low"), confidence_score |-> Some(100)] }
LongBatches == [1..(FactorCap + MaxExcess) -> LongPool]

ImpactInit ==
    /\ mi_articles \in ShortBatches \cup {ExampleBatch} \cup LongBatches
    /\ mi_result = <<>>
    /\ mi_pc = "call"

\* one call of calculate_market_impact_score
CallImpact ==
    /\ mi_pc = "call"
    /\ mi_result' = calculate_market_impact_score(mi_articles)
    /\ mi_pc' = "returned"
    /\ UNCHANGED <<mi_articles, mi_others>>

---------------------------------------------------------------------------
(* The filter of analyzed articles (data_processor.py)                     *)
(* A Python list is an object: the model keeps the lists in fa_heap and    *)
(* passes them by their place in it.                                       *)

All == <<"a","l","l">>

\* the same list
ListItself(heap, list) == [heap |-> heap, list |-> list]

\* list.copy(): a new list of the same items
ListCopy(heap, list) == [heap |-> Append(heap, heap[list]), list |-> Len(heap) + 1]

\* the items of the list filtered
ItemsOf(filtered) == filtered.heap[filtered.list]

\* [a for a in filtered if ...]: a new list of the items kept
Comprehension(filtered, kept) ==
    [heap |-> Append(filtered.heap, kept), list |-> Len(filtered.heap) + 1]

\* `if sentiment` without the test for 'all'
SentimentGiven(sentiment) == sentiment # None /\ sentiment[1] # <<>>

\* if sentiment and sentiment.lower() != 'all'
SentimentActive(sentiment) ==
    sentiment # None /\ sentiment[1] # <<>> /\ Lower(sentiment[1]) # All

\* if source and source.lower() != 'all'
SourceActive(source) ==
    source # None /\ source[1] # <<>> /\ Lower(source[1]) # All

\* DataProcessor.filter_articles: the heap after the call and the list
\* returned
filter_articles(heap, articles, sentiment, source, min_confidence) ==
    LET same_sentiment(a) ==
            Lower(IF a.sentiment = None THEN <<>> ELSE a.sentiment[1])
                = Lower(sentiment[1])
        same_source(a) ==
            (IF a.source = None THEN <<>> ELSE a.source[1]) = source[1]
        confident(a) ==
            (IF a.confidence_score = None THEN 0 ELSE a.confidence_score[1])
                >= min_confidence[1]
        copied == ListCopy(heap, articles)
        by_sentiment ==
            IF SentimentActive(sentiment)
            THEN Comprehension(copied, SelectSeq(ItemsOf(copied), same_sentiment))
            ELSE copied
        by_source ==
            IF SourceActive(source)
            THEN Comprehension(by_sentiment, SelectSeq(ItemsOf(by_sentiment), same_source))
            ELSE by_sentiment
    IN  IF min_confidence # None
        THEN Comprehension(by_source, SelectSeq(ItemsOf(by_source), confident))
        ELSE by_source

\* analyzed articles, confidences in hundredths
MaxFiltered == 2
FilterPool ==
    { [sentiment |-> Some(<<"P","o","s","i","t","i","v","e">>), source |-> Some(<<"B","B","C">>), confidence_score |-> Some(80)],
      [sentiment |-> Some(<<"p","o","s","i","t","i","v","e">>), source |-> Some(<<"b","b","c">>), confidence_score |-> Some(30)],
      [sentiment |-> Some(<<"n","e","g","a","t","i","v","e">>), source |-> Some(<<"B","B","C">>), confidence_score |-> Some(50)],
      [sentiment |-> Some(<<"n","e","u","t","r","a","l">>), source |-> Some(<<"A","l","l">>), confidence_score |-> Some(50)],
      [sentiment |-> None, source |-> None, confidence_score |-> None] }
FilterSentiments ==
    {None, Some(<<>>), Some(All), Some(<<"A","L","L">>), Some(<<"p","o","s","i","t","i","v","e">>), Some(<<"N","E","G","A","T","I","V","E">>)}
FilterSources == {None, Some(<<>>), Some(All), Some(<<"A","l","l">>), Some(<<"B","B","C">>)}
FilterConfidences == {None, Some(0), Some(50)}

FilterInit ==
    /\ fa_given \in UNION {[1..n -> FilterPool] : n \in 0..MaxFiltered}
    /\ fa_heap = <<fa_given>>
    /\ fa_articles = 1
    /\ fa_sentiment \in FilterSentiments
    /\ fa_source \in FilterSources
    /\ fa_min_confidence \in FilterConfidences
    /\ fa_result = 0
    /\ fa_pc = "call"

\* one call of filter_articles
CallFilter ==
    /\ fa_pc = "call"
    /\ LET returned == filter_articles(fa_heap, fa_articles, fa_sentiment, fa_source,
                                       fa_min_confidence)
       IN  /\ fa_heap' = returned.heap
           /\ fa_result' = returned.list
    /\ fa_pc' = "returned"
    /\ UNCHANGED <<fa_articles, fa_given, fa_sentiment, fa_source, fa_min_confidence,
                   fa_others>>

---------------------------------------------------------------------------
(* The most common insights (data_processor.py)                            *)
(* An analyzed article is given by its key_insights, an Optional list of   *)
(* strings: None when the article has no such key.                         *)

\* re.sub(r'\s+', ' ', s): every run of white space becomes one blank
RECURSIVE CollapseFrom(_, _)
CollapseFrom(s, k) ==
    IF k > Len(s) THEN <<>>
    ELSE IF ~IsSpace(s[k]) THEN <<s[k]>> \o CollapseFrom(s, k + 1)
    ELSE IF k > 1 /\ IsSpace(s[k - 1]) THEN CollapseFrom(s, k + 1)
    ELSE <<" ">> \o CollapseFrom(s, k + 1)
CollapseSpaces(s) == CollapseFrom(s, 1)

\* re.sub(r'^(the |a |an )', '', s): the first of the alternatives that s
\* begins with is removed, once
ArticlePrefixes == <<<<"t","h","e"," ">>, <<"a"," ">>, <<"a","n"," ">>>>
RemoveArticle(s) ==
    IF \E k \in DOMAIN ArticlePrefixes : StartsWith(s, ArticlePrefixes[k])
    THEN LET k == CHOOSE i \in DOMAIN ArticlePrefixes :
                      /\ StartsWith(s, ArticlePrefixes[i])
                      /\ \A j \in 1..(i - 1) : ~StartsWith(s, ArticlePrefixes[j])
         IN  SubSeq(s, Len(ArticlePrefixes[k]) + 1, Len(s))
    ELSE s

\* re.sub(r'(\.|\!|\?)$', '', s): `$` matches at the end of s and before a
\* line end that ends s
TerminalMarks == {".", "!", "?"}
RemoveTerminalMark(s) ==
    IF s # <<>> /\ s[Len(s)] \in TerminalMarks THEN SubSeq(s, 1, Len(s) - 1)
    ELSE IF Len(s) >= 2 /\ s[Len(s)] = "\n" /\ s[Len(s) - 1] \in TerminalMarks
         THEN SubSeq(s, 1, Len(s) - 2) \o <<"\n">>
         ELSE s

\* A normalization that leaves a leading article in place.
NormalizeKeepingArticle(insight) ==
    RemoveTerminalMark(CollapseSpaces(Strip(Lower(insight))))

\* DataProcessor._normalize_insight
_normalize_insight(insight) ==
    RemoveTerminalMark(RemoveArticle(CollapseSpaces(Strip(Lower(insight)))))

\* article.get('key_insights', [])
InsightsOf(article) ==
    IF article.key_insights = None THEN <<>> ELSE article.key_insights[1]

\* all_insights after the first loop, from article k on
RECURSIVE AllInsights(_, _)
AllInsights(articles, k) ==
    IF k > Len(articles) THEN <<>>
    ELSE InsightsOf(articles[k]) \o AllInsights(articles, k + 1)

\* the normalized insights, in the order of all_insights
RECURSIVE NormalizedFrom(_, _)
NormalizedFrom(all, k) ==
    IF k > Len(all) THEN <<>>
    ELSE <<_normalize_insight(all[k])>> \o NormalizedFrom(all, k + 1)

\* insight_counts.items() after the second loop: a dict keeps its keys in
\* the order of their first insertion; an item is <<key, count>>
CountItems(normalized) ==
    LET first == {k \in DOMAIN normalized :
                     \A j \in 1..(k - 1) : normalized[j] # normalized[k]}
        order == Ascending(first)
    IN  [i \in 1..Cardinality(first) |->
            <<normalized[order[i]],
              Cardinality({j \in DOMAIN normalized : normalized[j] = normalized[order[i]]})>>]

\* A sort by count that puts the later of two items of equal count first.
SortedByCountLatestFirst(items) ==
    [r \in DOMAIN items |->
        items[CHOOSE i \in DOMAIN items :
                 Cardinality({j \in DOMAIN items :
                     \/ items[j][2] > items[i][2]
                     \/ (items[j][2] = items[i][2] /\ j > i)}) = r - 1]]

\* sorted(items, key=lambda x: x[1], reverse=True): the sort is stable, and
\* with reverse=True items of equal count keep their order
SortedByCount(items) ==
    [r \in DOMAIN items |->
        items[CHOOSE i \in DOMAIN items :
                 Cardinality({j \in DOMAIN items :
                     \/ items[j][2] > items[i][2]
                     \/ (items[j][2] = items[i][2] /\ j < i)}) = r - 1]]

\* DataProcessor.get_top_insights, for top_n >= 0
get_top_insights(articles, top_n) ==
    LET all_insights == AllInsights(articles, 1)
        sorted_insights == SortedByCount(CountItems(NormalizedFrom(all_insights, 1)))
        top == Take(sorted_insights, top_n)
    IN  [k \in DOMAIN top |-> top[k][1]]

---------------------------------------------------------------------------
(* Inputs of get_top_insights                                              *)

MaxInsightArticles == 2
MaxTopN == 3

I_the_market == <<"T","h","e"," ","m","a","r","k","e","t"," ","i","s"," ","v","o","l","a","t","i","l","e",".">>
I_market == <<"m","a","r","k","e","t"," ","i","s"," ","v","o","l","a","t","i","l","e">>
I_rates == <<" ","A"," "," ">> \o <<"R","a","t","e","s">> \o <<"\t">> \o <<"r","i","s","e","!"," ">>
I_rise == <<"A","N"," ","r","a","t","e","s"," "," ","r","i","s","e">>
I_theory == <<"T","h","e","o","r","y","?","!">>
InsightPool == <<I_the_market, I_market, I_rates, I_rise, I_theory>>

\* the key_insights of an article: no key, or a list of up to two insights,
\* two in the order of the pool (two articles give the other orders)
InsightLists ==
    {None, Some(<<>>)} \cup {Some(<<InsightPool[i]>>) : i \in DOMAIN InsightPool}
        \cup UNION {{Some(<<InsightPool[i], InsightPool[j]>>) :
                        j \in (i + 1)..Len(InsightPool)} : i \in DOMAIN InsightPool}
InsightArticles == [key_insights : InsightLists]

InsightsInit ==
    /\ ti_articles \in UNION {[1..n -> InsightArticles] : n \in 0..MaxInsightArticles}
    /\ ti_top_n \in 0..MaxTopN
    /\ ti_result = <<>>
    /\ ti_pc = "call"

\* one call of get_top_insights
CallInsights ==
    /\ ti_pc = "call"
    /\ ti_result' = get_top_insights(ti_articles, ti_top_n)
    /\ ti_pc' = "returned"
    /\ UNCHANGED <<ti_articles, ti_top_n, ti_others>>

---------------------------------------------------------------------------
(* The sentiment summary (data_processor.py)                               *)
(* A DataFrame is the list of its rows, with the columns the summary       *)
(* reads; the DataFrame without rows and columns is <<>>.  A date is the   *)
(* number of its day, which orders as its string YYYY-MM-DD does, and the  *)
(* dates of the articles are in that form already.  Series.mean() is kept  *)
(* as the column it is taken of.                                           *)

\* a value of a numeric column: NaN, or a number
NaN == <<>>
Num(v) == <<v>>
NeutralSentiment == "neutral"

\* df['sentiment'].map({'positive': 1, 'neutral': 0, 'negative': -1}): a
\* sentiment that is no key of the dict maps to NaN
SentimentScore(sentiment) ==
    CASE sentiment = "positive" -> Num(1)
      [] sentiment = "neutral" -> Num(0)
      [] sentiment = "negative" -> Num(-1)
      [] OTHER -> NaN

\* the row of one article, with the derived columns; confidences are in
\* hundredths
SummaryRow(article, today) ==
    LET sentiment == IF article.sentiment = None THEN NeutralSentiment
                     ELSE article.sentiment[1]
        confidence == IF article.confidence_score = None THEN 0
                      ELSE article.confidence_score[1]
    IN  [source |-> IF article.source = None THEN "Unknown" ELSE article.source[1],
         published_date |-> IF article.published_date = None THEN today
                            ELSE article.published_date[1],
         sentiment |-> sentiment,
         confidence_score |-> Num(confidence),
         sentiment_score |-> SentimentScore(sentiment),
         weighted_sentiment |-> IF SentimentScore(sentiment) = NaN THEN NaN
                                ELSE Num(SentimentScore(sentiment)[1] * confidence)]

\* DataProcessor.process_articles_to_dataframe
process_articles_to_dataframe(articles, today) ==
    IF articles = <<>> THEN <<>>
    ELSE [k \in DOMAIN articles |-> SummaryRow(articles[k], today)]

\* df['sentiment'].value_counts().to_dict()
ValueCounts(df) ==
    [s \in {df[k].sentiment : k \in DOMAIN df} |->
        Cardinality({k \in DOMAIN df : df[k].sentiment = s})]

\* df['source'].unique().tolist(): the sources in the order of their first rows
UniqueSources(df) ==
    LET first == {k \in DOMAIN df : \A j \in 1..(k - 1) : df[j].source # df[k].source}
    IN  [i \in 1..Cardinality(first) |-> df[Ascending(first)[i]].source]

\* the dict returned for a DataFrame with rows
FullSummary(df) ==
    [total_articles |-> Len(df),
     sentiment_distribution |-> ValueCounts(df),
     average_confidence |-> [mean_of |-> [k \in DOMAIN df |-> df[k].confidence_score]],
     overall_sentiment_score |-> [mean_of |-> [k \in DOMAIN df |-> df[k].weighted_sentiment]],
     sources |-> UniqueSources(df),
     date_range |->
        [earliest |-> CHOOSE d \in {df[k].published_date : k \in DOMAIN df} :
                          \A k \in DOMAIN df : d <= df[k].published_date,
         latest |-> CHOOSE d \in {df[k].published_date : k \in DOMAIN df} :
                        \A k \in DOMAIN df : d >= df[k].published_date]]

\* An empty summary with the keys of the full one.
EmptySummaryWithAllKeys ==
    [total_articles |-> 0,
     sentiment_distribution |-> <<>>,
     average_confidence |-> [float |-> 0],
     overall_sentiment_score |-> [float |-> 0],
     sources |-> <<>>,
     date_range |-> [earliest |-> NaN, latest |-> NaN]]

\* the dict returned for the empty DataFrame; 0.0 is [float |-> 0]
EmptySummary ==
    [total_articles |-> 0,
     sentiment_distribution |-> <<>>,
     average_confidence |-> [float |-> 0],
     overall_sentiment_score |-> [float |-> 0]]

\* DataProcessor.get_sentiment_summary
get_sentiment_summary(articles, today) ==
    LET df == process_articles_to_dataframe(articles, today)
    IN  IF df = <<>> THEN EmptySummary ELSE FullSummary(df)

---------------------------------------------------------------------------
(* Inputs of get_sentiment_summary                                         *)

MaxSummaryBatch == 2

SummaryPool ==
    [sentiment : {None, Some("positive"), Some("negative"), Some("mixed")},
     confidence_score : {None, Some(80)},
     source : {None, Some(Src_BBC)},
     published_date : {None, Some(1)}]

SummaryInit ==
    /\ ss_articles \in UNION {[1..n -> SummaryPool] : n \in 0..MaxSummaryBatch}
    /\ ss_today \in {2, 3}
    /\ ss_result = <<>>
    /\ ss_pc = "call"

\* one call of get_sentiment_summary
CallSummary ==
    /\ ss_pc = "call"
    /\ ss_result' = get_sentiment_summary(ss_articles, ss_today)
    /\ ss_pc' = "returned"
    /\ UNCHANGED <<ss_articles, ss_today, ss_others>>

---------------------------------------------------------------------------
(* Specifications                                                          *)

DedupeIdle ==
    /\ dd_impl = 0 /\ dd_in = <<>> /\ dd_out = <<>> /\ dd_out2 = <<>>
    /\ dd_pc = "idle"
ExtractIdle ==
    /\ ex_impl = 0 /\ ex_url = <<>> /\ ex_page = <<>> /\ ex_result = None
    /\ ex_fetches = 0 /\ ex_pc = "idle"
ScrapeIdle ==
    /\ sn_impl = 0 /\ sn_search_terms = <<>> /\ sn_sources = <<>> /\ sn_start_date = 0
    /\ sn_end_date = 0 /\ sn_max_articles = 0 /\ sn_feeds = <<>> /\ sn_pc = "idle" /\ sn_i = 0
    /\ sn_articles = <<>> /\ sn_result = <<>> /\ sn_log = <<>>

RelevanceIdle ==
    /\ rf_content = <<>> /\ rf_terms = <<>> /\ rf_result = FALSE /\ rf_pc = "idle"

SourceIdle ==
    /\ so_impl = 0 /\ so_kind = "" /\ so_terms = <<>> /\ so_budget = 0
    /\ so_entries = <<>> /\ so_result = <<>> /\ so_pc = "idle"

AnalyzeIdle ==
    /\ an_article = <<>> /\ an_oracle = <<>> /\ an_result = <<>> /\ an_pc = "idle"

ImpactIdle ==
    /\ mi_articles = <<>> /\ mi_result = <<>> /\ mi_pc = "idle"

FilterIdle ==
    /\ fa_heap = <<>> /\ fa_articles = 0 /\ fa_given = <<>> /\ fa_sentiment = <<>>
    /\ fa_source = <<>> /\ fa_min_confidence = <<>> /\ fa_result = 0 /\ fa_pc = "idle"

InsightsIdle ==
    /\ ti_articles = <<>> /\ ti_top_n = 0 /\ ti_result = <<>> /\ ti_pc = "idle"

SummaryIdle ==
    /\ ss_articles = <<>> /\ ss_today = 0 /\ ss_result = <<>> /\ ss_pc = "idle"

\* every component but the one named is not used
OthersIdle(c) ==
    /\ (c = "dd" \/ DedupeIdle)
    /\ (c = "ex" \/ ExtractIdle)
    /\ (c = "sc" \/ ScrapeIdle)
    /\ (c = "rf" \/ RelevanceIdle)
    /\ (c = "so" \/ SourceIdle)
    /\ (c = "an" \/ AnalyzeIdle)
    /\ (c = "mi" \/ ImpactIdle)
    /\ (c = "fa" \/ FilterIdle)
    /\ (c = "ti" \/ InsightsIdle)
    /\ (c = "ss" \/ SummaryIdle)

\* the Deduplicator on every bounded list
InitDedupe == DedupeInit /\ OthersIdle("dd")
NextDedupe == RunDedupe \/ RunDedupeAgain
SpecDedupe == InitDedupe /\ [][NextDedupe]_vars

\* the Content Extractor on every bounded page
InitExtract == ExtractInit /\ OthersIdle("ex")
NextExtract == CallExtract
SpecExtract == InitExtract /\ [][NextExtract]_vars

\* the Relevance Filter on every bounded content and term list
InitRelevance == RelevanceInit /\ OthersIdle("rf")
NextRelevance == CallRelevance
SpecRelevance == InitRelevance /\ [][NextRelevance]_vars

\* a feed source on every bounded feed
InitSource == SourceInit /\ OthersIdle("so")
NextSource == CallSource
SpecSource == InitSource /\ [][NextSource]_vars

\* analyze_article on every article and combination of oracle answers
InitAnalyze == AnalyzeInit /\ OthersIdle("an")
NextAnalyze == CallAnalyze
SpecAnalyze == InitAnalyze /\ [][NextAnalyze]_vars

\* calculate_market_impact_score on every batch
InitImpact == ImpactInit /\ OthersIdle("mi")
NextImpact == CallImpact
SpecImpact == InitImpact /\ [][NextImpact]_vars

\* filter_articles on every bounded list and combination of arguments
InitFilter == FilterInit /\ OthersIdle("fa")
NextFilter == CallFilter
SpecFilter == InitFilter /\ [][NextFilter]_vars

\* one call of get_top_insights on every bounded list of articles
InitInsights == InsightsInit /\ OthersIdle("ti")
NextInsights == CallInsights
SpecInsights == InitInsights /\ [][NextInsights]_vars

\* one call of get_sentiment_summary on every bounded list of articles
InitSummary == SummaryInit /\ OthersIdle("ss")
NextSummary == CallSummary
SpecSummary == InitSummary /\ [][NextSummary]_vars

\* scrape_news on every bounded input and world
InitScrape == ScrapeInit /\ OthersIdle("sc")
NextScrape ==
    \/ QuerySearch
    \/ SkipUnknown
    \/ QuerySource
    \/ Sleep
    \/ CheckCap
    \/ LoopEnd
    \/ Finish
SpecScrape == InitScrape /\ [][NextScrape]_vars

---------------------------------------------------------------------------
(* Properties of the Deduplicator                                          *)

\* |A & B| / |A | B| > 0.7 for the word sets of two lowercased titles
TitlesSimilar(t1, t2) ==
    LET A == Words(Lower(t1))
        B == Words(Lower(t2))
    IN  10 * Cardinality(A \cap B) > 7 * Cardinality(A \cup B)

\* C1: the output of the Deduplicator holds no two articles whose titles
\* have word-set Jaccard similarity above 0.7.
C1_NoSimilarPairSurvives ==
    dd_pc \in {"once", "twice"} =>
        \A m, n \in DOMAIN dd_out :
            m < n => ~TitlesSimilar(dd_out[m].title, dd_out[n].title)

\* a list with a similar pair went in, and two or more articles came out
C1_Witness ==
    /\ dd_pc = "once"
    /\ \E m, n \in DOMAIN dd_in :
           m < n /\ TitlesSimilar(dd_in[m].title, dd_in[n].title)
    /\ Len(dd_out) >= 2
    /\ Len(dd_out) < Len(dd_in)

\* C2: the Deduplicator is idempotent: applied to its own output it returns
\* that output, the same articles in the same order.
C2_DedupeIdempotent == dd_pc = "twice" => dd_out2 = dd_out

\* the first pass dropped something and kept two or more, and the second ran
C2_Witness ==
    /\ dd_pc = "twice"
    /\ Len(dd_out) >= 2
    /\ Len(dd_out) < Len(dd_in)

\* the places of the input kept by one greedy pass: a place is kept if and
\* only if its title is similar to no title kept before it
GreedyKept(kept) ==
    \A k \in DOMAIN dd_in :
        k \in kept <=>
            \A j \in kept : j < k => ~TitlesSimilar(dd_in[j].title, dd_in[k].title)

\* C26: the Deduplicator returns the subsequence of its input built greedily
\* in one pass, in the input's order: an article is kept if and only if the
\* Jaccard similarity of its title's word set with that of every title kept
\* before is at most 0.7, a similarity of exactly 0.7 keeping it; with no
\* words on either side the similarity is 0, so an article whose title has
\* no words is never discarded.
C26_GreedySubsequence ==
    dd_pc \in {"once", "twice"} =>
        /\ \E kept \in SUBSET DOMAIN dd_in :
              /\ GreedyKept(kept)
              /\ dd_out = [i \in 1..Cardinality(kept) |-> dd_in[Ascending(kept)[i]]]
        /\ \A k \in DOMAIN dd_in :
              Words(Lower(dd_in[k].title)) = {} =>
                  Cardinality({j \in DOMAIN dd_out : dd_out[j] = dd_in[k]})
                      = Cardinality({j \in DOMAIN dd_in : dd_in[j] = dd_in[k]})

\* two titles of similarity exactly 0.7 were both kept, and so was a title
\* without words
C26_Witness ==
    /\ dd_pc = "once"
    /\ \E m, n \in DOMAIN dd_out :
          /\ m < n
          /\ Words(Lower(dd_out[m].title)) # {}
          /\ 10 * Cardinality(Words(Lower(dd_out[m].title)) \cap Words(Lower(dd_out[n].title)))
                = 7 * Cardinality(Words(Lower(dd_out[m].title)) \cup Words(Lower(dd_out[n].title)))
    /\ \E k \in DOMAIN dd_out : Words(Lower(dd_out[k].title)) = {}
    /\ Len(dd_out) = Len(dd_in)

---------------------------------------------------------------------------
(* Properties of the Content Extractor                                     *)

\* the call got as far as a successful download
Downloaded ==
    /\ ex_pc = "returned"
    /\ ex_page.fetch = "ok"
    /\ ex_impl = 1 => ExtractFetches(ex_url) = 1

\* C10 as stated: after a successful download the extractor returns nothing
\* for an extracted text of length 99 or less and an article for one of
\* length 100 or more.
C10_GateOnTextLength ==
    Downloaded /\ ex_page.text # None =>
        /\ Len(ex_page.text[1]) <= 99 => ex_result = None
        /\ Len(ex_page.text[1]) >= 100 => ex_result # None

\* C10, amended: the length that decides is that of the extracted text with
\* its leading and trailing white space removed: 99 or less (or no text at
\* all) returns nothing, 100 or more returns the article with the text.
C10_GateOnStrippedLength ==
    Downloaded =>
        /\ ex_page.text = None => ex_result = None
        /\ ex_page.text # None /\ Len(Strip(ex_page.text[1])) <= 99
              => ex_result = None
        /\ ex_page.text # None /\ Len(Strip(ex_page.text[1])) >= 100
              => /\ ex_result # None
                 /\ ex_impl = 1 => ex_result[1].content = ex_page.text[1]
                 /\ ex_impl = 2 => ex_result[1] = ex_page.text[1]

\* a padded text whose stripped length is exactly 100 was accepted
C10_Witness ==
    /\ Downloaded
    /\ ex_page.text # None
    /\ Len(Strip(ex_page.text[1])) = 100
    /\ Len(ex_page.text[1]) > 100
    /\ ex_result # None

\* the extractor of news_scraper.py returned an article
ArticleReturned == ex_impl = 1 /\ ex_pc = "returned" /\ ex_result # None

\* the metadata of the page carry a title
MetaTitled ==
    /\ ex_page.meta # None
    /\ ex_page.meta[1].title # None
    /\ ex_page.meta[1].title[1] # <<>>

\* the lines of the body, and those among the first n of them whose length
\* without the white space around them is more than 10 and less than 150
BodyLines == Split(ex_page.text[1], "\n")
TitleCandidates(n) ==
    {k \in 1..(IF n < Len(BodyLines) THEN n ELSE Len(BodyLines)) :
        Len(Strip(BodyLines[k])) > 10 /\ Len(Strip(BodyLines[k])) < 150}
FirstCandidate(n) ==
    CHOOSE k \in TitleCandidates(n) : \A j \in TitleCandidates(n) : k <= j

\* C27 as stated: the title of a returned article is the title of the
\* metadata if there is one, otherwise the first line of the body whose
\* length is between 10 and 150, otherwise "Untitled Article".
C27_TitleFromAnyLine ==
    ArticleReturned =>
        ex_result[1].title =
            IF MetaTitled THEN ex_page.meta[1].title[1]
            ELSE IF TitleCandidates(Len(BodyLines)) # {}
                 THEN Strip(BodyLines[FirstCandidate(Len(BodyLines))])
                 ELSE UntitledArticle

\* C27, amended: the title of a returned article is the title of the
\* metadata if there is a non-empty one, otherwise the first of the first
\* five lines of the body whose length without the white space around it is
\* more than 10 and less than 150, without that white space, otherwise
\* "Untitled Article".
C27_TitleFromFirstFiveLines ==
    ArticleReturned =>
        ex_result[1].title =
            IF MetaTitled THEN ex_page.meta[1].title[1]
            ELSE IF TitleCandidates(5) # {}
                 THEN Strip(BodyLines[FirstCandidate(5)])
                 ELSE UntitledArticle

\* without a metadata title, a body whose only line of a fitting length is
\* its sixth was titled "Untitled Article"
C27_Witness ==
    /\ ArticleReturned
    /\ ~MetaTitled
    /\ TitleCandidates(5) = {}
    /\ TitleCandidates(Len(BodyLines)) = {6}
    /\ ex_result[1].title = UntitledArticle

\* the URL is empty or begins with neither http:// nor https://
UrlRejected ==
    \/ ex_url = <<>>
    \/ /\ ~(Len(ex_url) >= 7 /\ SubSeq(ex_url, 1, 7) = <<"h","t","t","p",":","/","/">>)
       /\ ~(Len(ex_url) >= 8 /\ SubSeq(ex_url, 1, 8) = <<"h","t","t","p","s",":","/","/">>)

\* C29 as stated: every call of the Content Extractor fetches the page
\* exactly once, and after a failed download it returns nothing.
C29_ExactlyOneFetch ==
    ex_pc = "returned" =>
        /\ ex_fetches = 1
        /\ ex_page.fetch # "ok" => ex_result = None

\* C29, amended: a call fetches the page at most once, never twice: once,
\* except that the extractor of news_scraper.py returns nothing without any
\* fetch for a URL that is empty or begins with neither http:// nor https://.
\* After a failed download (no document, or an exception of the fetch) the
\* call returns nothing; no call ends in an exception.
C29_OneFetchUnlessRejected ==
    /\ ex_pc \in {"call", "returned"} /\ ex_fetches \in {0, 1}
    /\ ex_pc = "call" => ex_fetches = 0
    /\ ex_pc = "returned" =>
          /\ ex_fetches = (IF ex_impl = 1 /\ UrlRejected THEN 0 ELSE 1)
          /\ ex_fetches = 0 => ex_result = None
          /\ ex_page.fetch # "ok" => ex_result = None

\* a download failed by an exception, after one fetch, and the call returned
\* nothing
C29_Witness ==
    /\ ex_pc = "returned"
    /\ ~UrlRejected
    /\ ex_page.fetch = "error"
    /\ ex_fetches = 1
    /\ ex_result = None

---------------------------------------------------------------------------
(* Properties of scrape_news                                               *)

\* the articles the first n steps of the log collected, in order
RECURSIVE GotThrough(_)
GotThrough(n) == IF n = 0 THEN <<>> ELSE GotThrough(n - 1) \o sn_log[n].got

IsQuery(k) == sn_log[k].kind = "query"
IsPause(k) == sn_log[k].kind = "sleep"

\* the feed a query of the log fetched
FeedOf(e) ==
    IF e.idx = 0 \/ (sn_impl = 2 /\ e.name = GoogleNews) THEN SearchFeed ELSE e.name

\* the feed did not answer with status 200
FeedFailed(f) == sn_feeds[f].error \/ sn_feeds[f].status_code # 200

\* C3: for max_articles >= 0, scrape_news returns the first max_articles
\* articles of the Deduplicator's result on the merged results of the sources
\* queried, in the order queried; the list is never longer than max_articles.
C3_DedupeThenTruncate ==
    sn_pc = "done" =>
        LET deduped == Dedupe(sn_impl, GotThrough(Len(sn_log))) IN
        /\ Len(sn_result) = (IF Len(deduped) < sn_max_articles THEN Len(deduped)
                                                              ELSE sn_max_articles)
        /\ \A k \in DOMAIN sn_result : sn_result[k] = deduped[k]

\* the Deduplicator dropped an article and the cap cut another
C3_Witness ==
    /\ sn_pc = "done"
    /\ sn_max_articles >= 1
    /\ Len(Dedupe(sn_impl, GotThrough(Len(sn_log)))) < Len(GotThrough(Len(sn_log)))
    /\ Len(sn_result) < Len(Dedupe(sn_impl, GotThrough(Len(sn_log))))

\* C4: every invocation queries the search aggregator first, before any
\* named source, asking for up to floor(max_articles / 2) articles, whether
\* or not "Google News" is among the names.
C4_SearchFirst ==
    /\ sn_pc \notin {"idle", "search"} => sn_log # <<>>
    /\ sn_log # <<>> =>
          /\ IsQuery(1)
          /\ sn_log[1].idx = 0
          /\ sn_log[1].name = SearchFeed
          /\ sn_log[1].budget = sn_max_articles \div 2
          /\ Len(sn_log[1].got) <= sn_max_articles \div 2
          /\ \A k \in 2..Len(sn_log) : IsQuery(k) => sn_log[k].idx >= 1

\* the search returned articles and a named source was queried after it, in
\* an invocation that names "Google News" and in one that does not
C4_Witness ==
    /\ sn_pc = "done"
    /\ sn_log[1].got # <<>>
    /\ \E k \in 2..Len(sn_log) : IsQuery(k)
    /\ \A k \in DOMAIN sn_sources : sn_sources[k] # GoogleNews

\* C5 as stated: once the running total of collected articles has reached
\* max_articles, no further source is queried (every query after the first
\* starts with fewer than max_articles articles collected).
C5_NoQueryAfterCap ==
    \A k \in 2..Len(sn_log) :
        IsQuery(k) => Len(GotThrough(k - 1)) < sn_max_articles

\* C6 as stated: between any two successive source queries, the search
\* included, there is a pause of one time unit.
C6_PauseBetweenQueries ==
    \A a, b \in DOMAIN sn_log :
        (/\ a < b /\ IsQuery(a) /\ IsQuery(b)
         /\ \A k \in (a + 1)..(b - 1) : ~IsQuery(k))
        => \E k \in (a + 1)..(b - 1) : IsPause(k) /\ sn_log[k].secs = 1

\* C7: a source whose feed fetch fails (the request raises, or the status is
\* not 200) contributes no article, and scrape_news is not aborted: no
\* exception leaves it, and when it returns every configured name was queried
\* unless the cap was reached before its turn.
C7_SourceFailureIsolated ==
    /\ \A k \in DOMAIN sn_log :
          IsQuery(k) /\ FeedFailed(FeedOf(sn_log[k])) => sn_log[k].got = <<>>
    /\ sn_pc # "raised"
    /\ sn_pc = "done" =>
          \A j \in DOMAIN sn_sources :
              IsKnown(sn_impl, sn_sources[j]) =>
                  \/ \E k \in DOMAIN sn_log : IsQuery(k) /\ sn_log[k].idx = j
                  \/ \E k \in DOMAIN sn_log :
                        /\ IsQuery(k) /\ sn_log[k].idx >= 1 /\ sn_log[k].idx < j
                        /\ Len(GotThrough(k)) >= sn_max_articles

\* a named source's feed failed, a later source was queried and returned
\* articles, and scrape_news returned some
C7_Witness ==
    /\ sn_pc = "done"
    /\ sn_result # <<>>
    /\ \E a, b \in DOMAIN sn_log :
          /\ a < b /\ IsQuery(a) /\ IsQuery(b)
          /\ sn_log[a].idx >= 1
          /\ FeedFailed(FeedOf(sn_log[a]))
          /\ sn_log[b].got # <<>>

\* the list without its k-th element
Without(s, k) == SubSeq(s, 1, k - 1) \o SubSeq(s, k + 1, Len(s))

C9_DateRangeIgnored ==
    sn_pc = "done" =>
        \A d \in DateRanges :
            sn_result = scrape_news(sn_impl, sn_search_terms, sn_sources, d.from, d.to,
                                    sn_max_articles, sn_feeds)

\* a named source returned an article whose published date lies outside
\* the date range, and scrape_news returned it
C9_Witness ==
    /\ sn_pc = "done"
    /\ \E k \in DOMAIN sn_result :
          /\ sn_result[k].source # GoogleNews
          /\ DayOf(sn_result[k].published_date) # 0
          /\ ~(sn_start_date <= DayOf(sn_result[k].published_date)
               /\ DayOf(sn_result[k].published_date) <= sn_end_date)

\* the steps of the log that are runs of the Deduplicator
DedupeRuns == {k \in DOMAIN sn_log : sn_log[k].kind = "dedupe"}

\* C24: one invocation of scrape_news is sequential: the sources are
\* queried one after the other, in the order search, then the names of
\* sources, none twice; the Deduplicator runs only as the last step, after
\* every query has returned, exactly once in an invocation that has
\* returned, and over the one list that merges what the queries returned.
C24_SequentialThenOneDedupe ==
    /\ \A a, b \in DOMAIN sn_log :
          a < b /\ IsQuery(a) /\ IsQuery(b) => sn_log[a].idx < sn_log[b].idx
    /\ DedupeRuns \subseteq {Len(sn_log)}
    /\ sn_pc # "raised"
    /\ Cardinality(DedupeRuns) = (IF sn_pc = "done" THEN 1 ELSE 0)
    /\ sn_pc = "done" =>
          sn_result = Take(Dedupe(sn_impl, GotThrough(Len(sn_log) - 1)), sn_max_articles)

\* the search and two named sources returned articles, then the
\* Deduplicator ran and dropped one
C24_Witness ==
    /\ sn_pc = "done"
    /\ Cardinality({k \in DOMAIN sn_log : IsQuery(k) /\ sn_log[k].got # <<>>}) = 3
    /\ DedupeRuns = {Len(sn_log)}
    /\ Len(Dedupe(sn_impl, GotThrough(Len(sn_log)))) < Len(GotThrough(Len(sn_log)))
    /\ sn_result # <<>>

\* the queries of the named sources in the log
NamedQueries == {k \in DOMAIN sn_log : IsQuery(k) /\ sn_log[k].idx >= 1}

\* what is left of max_articles when step k of the log begins
RemainingAt(k) == sn_max_articles - Len(GotThrough(k - 1))

C30_ShortOnlyWhenAllQueried ==
    sn_pc = "done" /\ Len(sn_result) < sn_max_articles =>
        \A j \in DOMAIN sn_sources :
            IsKnown(sn_impl, sn_sources[j]) =>
                \E k \in NamedQueries : sn_log[k].idx = j

\* What the code does for C30: the loop stops on the number of articles
\* collected before the Deduplicator runs; if fewer than max_articles
\* articles were collected, every known source named was queried.
C30_CollectedShortOnlyWhenAllQueried ==
    sn_pc = "done" /\ Len(GotThrough(Len(sn_log))) < sn_max_articles =>
        \A j \in DOMAIN sn_sources :
            IsKnown(sn_impl, sn_sources[j]) =>
                \E k \in NamedQueries : sn_log[k].idx = j

\* max_articles articles were collected, the Deduplicator left fewer, and a
\* known source named was never queried
C30_ShortWithSourceUnqueried ==
    /\ sn_pc = "done"
    /\ Len(GotThrough(Len(sn_log))) >= sn_max_articles
    /\ Len(sn_result) < sn_max_articles
    /\ \E j \in DOMAIN sn_sources :
          /\ IsKnown(sn_impl, sn_sources[j])
          /\ \A k \in NamedQueries : sn_log[k].idx # j

---------------------------------------------------------------------------
(* Properties of the Relevance Filter                                      *)

\* the term, trimmed, is not empty and occurs in the content, whatever the
\* case of the letters
TermOccurs(term, content) ==
    /\ Strip(term) # <<>>
    /\ \E k \in 0..(Len(content) - Len(Strip(term))) :
          Lower(SubSeq(content, k + 1, k + Len(Strip(term)))) = Lower(Strip(term))

\* C11 as stated: _is_relevant_article returns false for every content
\* shorter than 100 characters, whatever the search terms.
C11_RejectsBelow100 ==
    rf_pc = "returned" /\ Len(rf_content) < 100 => ~rf_result

\* C11: _is_relevant_article returns false for every content shorter than 50
\* characters, whatever the search terms.
C11_RejectsBelow50 ==
    rf_pc = "returned" /\ Len(rf_content) < 50 => ~rf_result

\* a content of 49 characters in which a search term occurs was rejected
C11_Witness ==
    /\ rf_pc = "returned"
    /\ Len(rf_content) = 49
    /\ \E k \in DOMAIN rf_terms : TermOccurs(rf_terms[k], rf_content)
    /\ ~rf_result

\* C12: for a content that passes the length gate, _is_relevant_article
\* returns true if and only if some search term that is not empty after
\* trimming occurs (trimmed, case-insensitively) as a substring of the
\* content; terms empty after trimming never match, and an empty term list
\* yields false.
C12_TrueIffSomeTermOccurs ==
    rf_pc = "returned" /\ Len(rf_content) >= RelevanceMinLength =>
        /\ rf_result <=> \E k \in DOMAIN rf_terms : TermOccurs(rf_terms[k], rf_content)
        /\ (\A k \in DOMAIN rf_terms : Strip(rf_terms[k]) = <<>>) => ~rf_result
        /\ rf_terms = <<>> => ~rf_result

\* a content past the gate was found relevant through a term written in
\* another case, next to a term that is empty after trimming
C12_Witness ==
    /\ rf_pc = "returned"
    /\ Len(rf_content) >= RelevanceMinLength
    /\ rf_result
    /\ \E k \in DOMAIN rf_terms : Strip(rf_terms[k]) = <<>>
    /\ \A k \in DOMAIN rf_terms :
          Strip(rf_terms[k]) # <<>> => ~Contains(rf_content, Strip(rf_terms[k]))

---------------------------------------------------------------------------
(* Properties of the feed sources                                          *)

\* the entries of the feed that carry the link `url`
EntriesWithLink(url) == {k \in DOMAIN so_entries : so_entries[k].link = url}

EntryTitle(entry) == IF entry.title # None THEN entry.title[1] ELSE NoTitle

\* the title, summary and description of the entry, joined
EntryText(entry) ==
    (IF entry.title # None THEN entry.title[1] ELSE <<>>)
        \o <<" ">> \o entry.summary \o <<" ">> \o entry.description

\* C13 as stated: no article returned by _scrape_rss_source,
\* _scrape_tech_rss_source or RSSSource.fetch_articles has a content for which
\* _is_relevant_article(content, search_terms) is false.
C13_BodyAlwaysValidated ==
    so_pc = "returned" /\ so_kind \in {"rss", "tech"} =>
        \A k \in DOMAIN so_result :
            _is_relevant_article(so_result[k].content, so_terms)

\* C13: every article returned by _scrape_rss_source has a content the
\* Relevance Filter accepts; an article returned by _scrape_tech_rss_source
\* has one too unless the title of its feed entry holds a search term, in
\* which case the content is not validated; an article returned by
\* RSSSource.fetch_articles has a feed entry whose title, summary or
\* description holds a search term, and its content is not validated.
C13_BodyValidatedWhereTheCodeDoes ==
    so_pc = "returned" =>
        /\ so_impl = 1 /\ so_kind = "rss" =>
              \A k \in DOMAIN so_result :
                  _is_relevant_article(so_result[k].content, so_terms)
        /\ so_impl = 1 /\ so_kind = "tech" =>
              \A k \in DOMAIN so_result :
                  \/ _is_relevant_article(so_result[k].content, so_terms)
                  \/ \E e \in EntriesWithLink(so_result[k].url) :
                        TitleRelevant(EntryTitle(so_entries[e]), so_terms)
        /\ so_impl = 2 /\ so_kind \in {"rss", "tech"} =>
              \A k \in DOMAIN so_result :
                  \E e \in EntriesWithLink(so_result[k].url) :
                      \E t \in DOMAIN so_terms :
                          TermOccurs(so_terms[t], EntryText(so_entries[e]))

\* _scrape_rss_source returned an article and dropped the entry whose page
\* was extracted but does not hold a search term
C13_Witness ==
    /\ so_pc = "returned" /\ so_impl = 1 /\ so_kind = "rss"
    /\ so_result # <<>>
    /\ EntriesWithLink(U_a5) # {}
    /\ \A k \in DOMAIN so_result : so_result[k].url # U_a5

\* the URL the resolution of an entry's link ends at: the link itself when
\* it is no wrapper, else the end of the redirects when following them
\* succeeds and leads elsewhere, else the URL decoded from the link's url=
\* parameter (variant 2: only if the redirect request did not fail), else
\* the wrapper link as it is
ResolvedUrl(v, link) ==
    IF ~Contains(link, GoogleHost) THEN link
    ELSE IF ~HeadAt(link).error /\ HeadAt(link).url \notin {<<>>, link} THEN HeadAt(link).url
    ELSE IF (v = 1 \/ ~HeadAt(link).error) /\ Contains(link, UrlParam)
         THEN LET from == Find(link, UrlParam, 0) + Len(UrlParam)
                  amp == Find(link, <<"&">>, from)
              IN  Unquote(SubSeq(link, from + 1, IF amp = -1 THEN Len(link) ELSE amp))
    ELSE link

\* C14 as stated: every article of the search-aggregator source carries the
\* resolved destination in `url`, never a news.google.com wrapper URL.
C14_NeverWrapperUrl ==
    so_pc = "returned" /\ so_kind = "search" =>
        \A k \in DOMAIN so_result : ~Contains(so_result[k].url, GoogleHost)

\* C14: every article of the search-aggregator source carries in `url` what
\* the best-effort resolution of its entry's link ends at: the redirect
\* target, else the decoded url= parameter, else the wrapper link itself.
C14_UrlIsBestEffortResolution ==
    so_pc = "returned" /\ so_kind = "search" =>
        \A k \in DOMAIN so_result :
            \E e \in 1..(IF so_budget < Len(so_entries) THEN so_budget ELSE Len(so_entries)) :
                so_result[k].url = ResolvedUrl(so_impl, so_entries[e].link)

\* the search returned an article whose wrapper link was resolved to its
\* destination
C14_Witness ==
    /\ so_pc = "returned" /\ so_kind = "search"
    /\ \E k \in DOMAIN so_result : \E e \in DOMAIN so_entries :
          /\ Contains(so_entries[e].link, GoogleHost)
          /\ so_result[k].url = ResolvedUrl(so_impl, so_entries[e].link)
          /\ ~Contains(so_result[k].url, GoogleHost)

---------------------------------------------------------------------------
(* Properties of analyze_article                                           *)

\* a request to the scoring oracle failed while the article was analyzed
SomeRequestFailed ==
    /\ an_article.content # <<>>
    /\ \E f \in {"summary", "sentiment", "insights", "impact"} : ~an_oracle[f].ok

\* the summary is an error text
IsErrorText(summary) ==
    \/ StartsWith(summary, UnableToGenerateSummary)
    \/ StartsWith(summary, ErrorAnalyzingArticle)

\* C15 as stated: whenever a request to the scoring oracle fails,
\* analyze_article returns exactly the fallback record: sentiment
\* 'neutral', confidence 0.0, an error text as summary, an empty list of
\* insights and market impact 'unknown'.
C15_WholeFallbackRecord ==
    an_pc = "returned" /\ SomeRequestFailed =>
        /\ an_result.sentiment = "neutral"
        /\ an_result.confidence_score = 0
        /\ IsErrorText(an_result.summary)
        /\ an_result.key_insights = <<>>
        /\ an_result.market_impact = "unknown"

\* What analyze_article does when requests fail (C15): it returns a record
\* whatever requests fail, and each failed request puts its own fallback in
\* its own field: the summary
\* "Unable to generate summary: <error>", sentiment 'neutral' with
\* confidence 0.0, a list of insights whose one element is the text
\* "Error extracting insights: <error>", market impact 'unknown'; the fields
\* of the requests that were answered carry the answers.
C15_FallbackPerRequest ==
    an_pc = "returned" /\ an_article.content # <<>> =>
        /\ DOMAIN an_result =
              {"sentiment", "confidence_score", "summary", "key_insights", "market_impact"}
        /\ ~an_oracle.summary.ok =>
              an_result.summary = UnableToGenerateSummary \o an_oracle.summary.message
        /\ an_oracle.summary.ok => ~IsErrorText(an_result.summary)
        /\ ~an_oracle.sentiment.ok =>
              an_result.sentiment = "neutral" /\ an_result.confidence_score = 0
        /\ an_oracle.sentiment.ok /\ an_oracle.sentiment.answer.sentiment # None =>
              an_result.sentiment = an_oracle.sentiment.answer.sentiment[1]
        /\ ~an_oracle.insights.ok =>
              an_result.key_insights =
                  <<ErrorExtractingInsights \o an_oracle.insights.message>>
        /\ an_oracle.insights.ok /\ an_oracle.insights.answer.insights # None =>
              an_result.key_insights = an_oracle.insights.answer.insights[1]
        /\ ~an_oracle.impact.ok => an_result.market_impact = "unknown"
        /\ an_oracle.impact.ok /\ an_oracle.impact.answer.impact # None =>
              an_result.market_impact = an_oracle.impact.answer.impact[1]

\* every request failed and the record carries the four fallbacks, the
\* list of insights holding the error text
C15_Witness ==
    /\ an_pc = "returned"
    /\ an_article.content # <<>>
    /\ \A f \in {"summary", "sentiment", "insights", "impact"} : ~an_oracle[f].ok
    /\ an_result.sentiment = "neutral" /\ an_result.confidence_score = 0
    /\ IsErrorText(an_result.summary)
    /\ Len(an_result.key_insights) = 1
    /\ an_result.market_impact = "unknown"

---------------------------------------------------------------------------
(* Properties of calculate_market_impact_score                             *)

\* what the call returned for the batch of four
ExampleReturned == mi_pc = "returned" /\ mi_articles = ExampleBatch

\* the contributions 2.7, 1.0, 0.3, 0.1, their average 1.025 and the two
\* factors of the batch of four
ExampleNumbers ==
    /\ [k \in 1..4 |-> Contribution(ExampleBatch[k])]
           = <<ToFloat(27, 10), ToFloat(10, 10), ToFloat(3, 10), ToFloat(1, 10)>>
    /\ AverageScore(ExampleBatch) = ToFloat(1025, 1000)
    /\ mi_result.factors = <<Factor(ExampleBatch[1]), Factor(ExampleBatch[2])>>
    /\ mi_result.factors[1].confidence > mi_result.factors[2].confidence

\* C16 as stated: the batch of four [high 0.9, medium 0.5, low 0.3,
\* minimal 0.2] has contributions [2.7, 1.0, 0.3, 0.1], average 1.025,
\* level "medium" and the factors [the high article, the medium article].
C16_ExampleLevelMedium ==
    ExampleReturned => ExampleNumbers /\ mi_result.level = "medium"

\* C16: the batch of four [high 0.9, medium 0.5, low 0.3, minimal 0.2] has
\* contributions [2.7, 1.0, 0.3, 0.1], average 1.025, level "low" (1.025 is
\* below the 1.5 of "medium") and the factors [the high article, the medium
\* article], in descending order of confidence.
C16_ExampleLevelLow ==
    ExampleReturned => ExampleNumbers /\ mi_result.level = "low"

C16_Witness ==
    /\ ExampleReturned
    /\ mi_result.level = "low"
    /\ Len(mi_result.factors) = 2

\* the weights of the named impacts, in tenths
NamedWeight(impact) ==
    CASE impact = "high" -> 30
      [] impact = "medium" -> 20
      [] impact = "low" -> 10
      [] impact = "minimal" -> 5
      [] impact = "unknown" -> 10

\* every article of the batch names one of the five impacts
ImpactsNamed ==
    \A k \in DOMAIN mi_articles :
        /\ mi_articles[k].market_impact # None
        /\ mi_articles[k].market_impact[1] \in {"high", "medium", "low", "minimal", "unknown"}

\* the sum over the articles of weight x confidence, in thousandths, a
\* missing confidence counted as 0.5
RECURSIVE WeightedSum(_)
WeightedSum(n) ==
    IF n = 0 THEN 0
    ELSE WeightedSum(n - 1)
           + NamedWeight(mi_articles[n].market_impact[1])
               * (IF mi_articles[n].confidence_score = None THEN 50
                  ELSE mi_articles[n].confidence_score[1])

\* the level is the one of the thresholds 2.5, 1.5 and 0.7 on the average
LevelByThresholds ==
    LET n == Len(mi_articles)
        sum == WeightedSum(n)
    IN  /\ mi_result.level = "high" <=> sum >= 2500 * n
        /\ mi_result.level = "medium" <=> sum >= 1500 * n /\ sum < 2500 * n
        /\ mi_result.level = "low" <=> sum >= 700 * n /\ sum < 1500 * n
        /\ mi_result.level = "minimal" <=> sum < 700 * n

\* C17 as stated: for every non-empty batch the average is the sum of
\* weight[impact] x confidence over the number of articles (weights high 3.0,
\* medium 2.0, low 1.0, minimal 0.5, unknown 1.0, missing confidence 0.5)
\* and the level is 'high' iff average >= 2.5, 'medium' iff
\* 1.5 <= average < 2.5, 'low' iff 0.7 <= average < 1.5, else 'minimal'.
C17_LevelByThresholds ==
    mi_pc = "returned" /\ mi_articles # <<>> /\ ImpactsNamed => LevelByThresholds

\* the average lies on one of the thresholds
OnThreshold ==
    \E t \in {2500, 1500, 700} : WeightedSum(Len(mi_articles)) = t * Len(mi_articles)

\* What the code does for C17: the level is the one of the thresholds
\* whenever the average lies on none of them.
C17_LevelByThresholdsOffTheThresholds ==
    /\ mi_pc = "returned" /\ mi_articles # <<>> /\ ImpactsNamed
    /\ ~OnThreshold
    => LevelByThresholds

\* a batch whose average lies on 1.5 got the level below
C17_BelowOnThreshold ==
    /\ mi_pc = "returned" /\ ImpactsNamed
    /\ WeightedSum(Len(mi_articles)) = 1500 * Len(mi_articles)
    /\ mi_result.level = "low"

\* the articles of the batch of high or medium impact
HighOrMedium ==
    {k \in DOMAIN mi_articles :
        /\ mi_articles[k].market_impact # None
        /\ mi_articles[k].market_impact[1] \in {"high", "medium"}}

\* C18: the factors are articles of high or medium impact only, in
\* descending order of confidence, at most 5, and when the batch has more
\* than 5 such articles they are 5 of the highest confidence: no article
\* left out has a higher confidence than a factor.
C18_FactorsTopFive ==
    mi_pc = "returned" =>
        LET factors == mi_result.factors IN
        /\ \A k \in DOMAIN factors : factors[k].impact \in {"high", "medium"}
        /\ \A k, l \in DOMAIN factors :
              k < l => factors[k].confidence >= factors[l].confidence
        /\ Len(factors) <= 5
        /\ Len(factors) = IF Cardinality(HighOrMedium) > 5 THEN 5
                          ELSE Cardinality(HighOrMedium)
        /\ \E chosen \in SUBSET HighOrMedium :
              /\ Cardinality(chosen) = Len(factors)
              /\ \A k \in DOMAIN factors :
                    Cardinality({l \in DOMAIN factors : factors[l] = factors[k]})
                        = Cardinality({i \in chosen : Factor(mi_articles[i]) = factors[k]})
              /\ \A i \in HighOrMedium \ chosen :
                    \A k \in DOMAIN factors :
                        factors[k].confidence >= ConfidenceOf(mi_articles[i])

\* more than 5 articles of high or medium impact, of which the one of the
\* lowest confidence, placed first in the batch, is left out
C18_Witness ==
    /\ mi_pc = "returned"
    /\ Cardinality(HighOrMedium) > 5
    /\ Len(mi_result.factors) = 5
    /\ 1 \in HighOrMedium
    /\ \A k \in DOMAIN mi_result.factors :
          mi_result.factors[k].confidence > ConfidenceOf(mi_articles[1])
    /\ mi_result.factors[1].impact # mi_result.factors[2].impact

---------------------------------------------------------------------------
(* Properties of filter_articles                                           *)

\* C19: filter_articles called with sentiment 'all', no source and no
\* minimum confidence returns a list equal to its input: the same articles
\* in the same order.
C19_AllReturnsInput ==
    /\ fa_pc = "returned"
    /\ fa_sentiment = Some(All) /\ fa_source = None /\ fa_min_confidence = None
    => fa_heap[fa_result] = fa_given

\* two articles of different sentiments came back as they were given
C19_Witness ==
    /\ fa_pc = "returned"
    /\ fa_sentiment = Some(All) /\ fa_source = None /\ fa_min_confidence = None
    /\ Len(fa_given) = 2
    /\ fa_given[1].sentiment # fa_given[2].sentiment
    /\ fa_heap[fa_result] = fa_given

\* a predicate is set to 'all', in whatever letter case, or left unset:
\* not passed, or passed empty
SetToAllOrUnset(argument) ==
    argument = None \/ argument[1] = <<>> \/ Lower(argument[1]) = All

\* the article satisfies every active predicate: its sentiment equals the
\* one asked for ignoring case, its source equals the one asked for, its
\* confidence (0 when it has none) is at least the threshold
SatisfiesActivePredicates(a) ==
    /\ SetToAllOrUnset(fa_sentiment)
         \/ (a.sentiment # None /\ Lower(a.sentiment[1]) = Lower(fa_sentiment[1]))
    /\ SetToAllOrUnset(fa_source)
         \/ (a.source # None /\ a.source[1] = fa_source[1])
    /\ fa_min_confidence = None
         \/ (IF a.confidence_score = None THEN 0 ELSE a.confidence_score[1])
               >= fa_min_confidence[1]

\* C20: filter_articles returns a fresh list, which holds exactly the
\* input articles that satisfy every active predicate, in the order of the
\* input; a predicate set to 'all' or left unset filters nothing; the input
\* list is not changed.
C20_FreshFilteredSubsequence ==
    fa_pc = "returned" =>
        /\ fa_result # fa_articles
        /\ fa_heap[fa_result] = SelectSeq(fa_given, SatisfiesActivePredicates)
        /\ fa_heap[fa_articles] = fa_given

\* the three predicates are active, an article is kept and another dropped
C20_Witness ==
    /\ fa_pc = "returned"
    /\ ~SetToAllOrUnset(fa_sentiment) /\ ~SetToAllOrUnset(fa_source)
    /\ fa_min_confidence # None
    /\ Len(fa_given) = 2
    /\ Len(fa_heap[fa_result]) = 1
    /\ fa_heap[fa_result][1] = fa_given[2]

\* no predicate is active and the list returned is a new one
C20_WitnessFresh ==
    /\ fa_pc = "returned"
    /\ SetToAllOrUnset(fa_sentiment) /\ SetToAllOrUnset(fa_source)
    /\ fa_min_confidence = None
    /\ fa_given # <<>>
    /\ fa_result # fa_articles
    /\ fa_heap[fa_result] = fa_given

---------------------------------------------------------------------------
(* Properties of the aggregation on an empty list                          *)

\* C22: calculate_market_impact_score on an empty list of articles returns
\* exactly score 0.0, level 'minimal' and an empty list of factors.
C22_EmptyBatchMinimal ==
    mi_pc = "returned" /\ mi_articles = <<>> =>
        mi_result = [score |-> 0, level |-> "minimal", factors |-> <<>>]

\* the call on the empty list returned
C22_Witness ==
    /\ mi_pc = "returned" /\ mi_articles = <<>>
    /\ DOMAIN mi_result = {"score", "level", "factors"}
    /\ mi_result.level = "minimal"

---------------------------------------------------------------------------
(* Properties of get_top_insights                                          *)

\* the places of the insights passed: <<a, i>> is insight i of article a
InsightPlaces ==
    {p \in (DOMAIN ti_articles) \X (1..2) :
        /\ ti_articles[p[1]].key_insights # None
        /\ p[2] <= Len(ti_articles[p[1]].key_insights[1])}
InsightAt(p) == ti_articles[p[1]].key_insights[1][p[2]]

\* place p comes before place q in the flattened input
Earlier(p, q) == p[1] < q[1] \/ (p[1] = q[1] /\ p[2] < q[2])

\* the words of an insight: the maximal runs of its characters other than
\* white space, in lower case, in their order
WordStarts(s) == {i \in DOMAIN s : ~IsSpace(s[i]) /\ (i = 1 \/ IsSpace(s[i - 1]))}
WordEnd(s, i) == CHOOSE j \in i..Len(s) :
                     /\ \A m \in i..j : ~IsSpace(s[m])
                     /\ (j = Len(s) \/ IsSpace(s[j + 1]))
WordsInOrder(s) ==
    [n \in 1..Cardinality(WordStarts(s)) |->
        LET i == CHOOSE i \in WordStarts(s) :
                     Cardinality({j \in WordStarts(s) : j < i}) = n - 1
        IN  SubSeq(Lower(s), i, WordEnd(s, i))]

\* the words joined by single blanks
RECURSIVE Joined(_)
Joined(ws) ==
    IF ws = <<>> THEN <<>>
    ELSE IF Len(ws) = 1 THEN ws[1]
    ELSE ws[1] \o <<" ">> \o Joined(Tail(ws))

\* what an insight stands for: its words in lower case joined by single
\* blanks, without one leading article (a first word "the", "a" or "an"
\* that another word follows) and then without one trailing ".", "!" or "?"
WithoutArticle(ws) ==
    IF Len(ws) >= 2 /\ ws[1] \in {<<"t","h","e">>, <<"a">>, <<"a","n">>} THEN Tail(ws) ELSE ws
WithoutMark(s) ==
    IF s # <<>> /\ s[Len(s)] \in {".", "!", "?"} THEN SubSeq(s, 1, Len(s) - 1) ELSE s
Plain(s) == WithoutMark(Joined(WithoutArticle(WordsInOrder(s))))

\* the insights passed: each place with what its insight stands for
PlainTable == {<<p, Plain(InsightAt(p))>> : p \in InsightPlaces}
PlainIn(table) == {e[2] : e \in table}

\* C21: get_top_insights counts as one insight all insights that are equal
\* up to letter case, the length of white-space runs (none counted at either
\* end), one leading article word and one trailing terminal punctuation
\* mark: every entry of the result is such a normal form of an insight
\* passed, no normal form is entered twice, every normal form is entered
\* when top_n allows it, and ["The market is volatile.", "market is
\* volatile"] with top_n = 1 gives ["market is volatile"].
C21_OneInsightPerNormalForm ==
    ti_pc = "returned" =>
        LET plain == PlainIn(PlainTable) IN
        /\ \A k \in DOMAIN ti_result : ti_result[k] \in plain
        /\ \A j, k \in DOMAIN ti_result : ti_result[j] = ti_result[k] => j = k
        /\ ti_top_n >= Cardinality(plain)
              => plain = {ti_result[k] : k \in DOMAIN ti_result}
        /\ /\ ti_articles = <<[key_insights |-> Some(<<I_the_market, I_market>>)]>>
           /\ ti_top_n = 1
           => ti_result = <<<<"m","a","r","k","e","t"," ","i","s"," ","v","o","l","a","t","i","l","e">>>>

\* four insights that differ in case, white space, article and punctuation
\* were counted as two
C21_Witness ==
    /\ ti_pc = "returned"
    /\ Cardinality({InsightAt(p) : p \in InsightPlaces}) = 4
    /\ \E p \in InsightPlaces : InsightAt(p) = I_the_market
    /\ \E p \in InsightPlaces : InsightAt(p) = I_rates
    /\ ti_result = <<<<"m","a","r","k","e","t"," ","i","s"," ","v","o","l","a","t","i","l","e">>, <<"r","a","t","e","s"," ","r","i","s","e">>>>

\* the number of insights passed that stand for n, and the first place of one
CountOf(table, n) == Cardinality({e \in table : e[2] = n})
FirstOf(table, n) ==
    (CHOOSE e \in table :
        /\ e[2] = n
        /\ \A f \in table : f[2] = n => ~Earlier(f[1], e[1]))[1]

\* normal form m ranks before normal form n: it occurs more often, or as
\* often and first at an earlier place
RanksBefore(table, m, n) ==
    \/ CountOf(table, m) > CountOf(table, n)
    \/ /\ CountOf(table, m) = CountOf(table, n)
       /\ Earlier(FirstOf(table, m), FirstOf(table, n))

\* C28: for top_n >= 0, get_top_insights returns the first top_n (all, if
\* there are fewer) of the distinct normalized insights in the order of
\* descending count, those of equal count in the order in which they are
\* first met in the flattened input.
C28_TopByCountThenFirstMet ==
    ti_pc = "returned" =>
        LET table == PlainTable
            plain == PlainIn(table)
        IN  /\ Len(ti_result) = (IF ti_top_n < Cardinality(plain)
                                 THEN ti_top_n ELSE Cardinality(plain))
            /\ \A k \in DOMAIN ti_result : ti_result[k] \in plain
            /\ \A j, k \in DOMAIN ti_result :
                  j < k => RanksBefore(table, ti_result[j], ti_result[k])
            /\ \A n \in plain :
                  (\A k \in DOMAIN ti_result : ti_result[k] # n)
                      => \A k \in DOMAIN ti_result : RanksBefore(table, ti_result[k], n)

\* of three normal forms the one met last came first with two occurrences,
\* the first met of the two others came second, and top_n = 2 cut the third
C28_Witness ==
    /\ ti_pc = "returned"
    /\ ti_top_n = 2
    /\ Len(ti_result) = 2
    /\ LET table == PlainTable IN
       /\ Cardinality(PlainIn(table)) = 3
       /\ CountOf(table, ti_result[1]) = 2
       /\ CountOf(table, ti_result[2]) = 1
       /\ \A n \in PlainIn(table) :
             n # ti_result[1] => Earlier(FirstOf(table, n), FirstOf(table, ti_result[1]))

---------------------------------------------------------------------------
(* Properties of get_sentiment_summary                                     *)

===========================================================================
